---- MODULE Spec2Model ----
(***************************************************************************)
(* BleedingEdge: discovery (GetContainerGroups), update detection          *)
(* (CheckUpdates), standalone container recreation                         *)
(* (UpdateStandaloneContainer) and compose project redeployment            *)
(* (UpdateComposeProject) against a container runtime.                     *)
(*                                                                         *)
(* Strings that the code inspects character by character (image            *)
(* references, container names) are sequences of one-character strings.    *)
(***************************************************************************)
EXTENDS Integers, Sequences, FiniteSets, TLC

\* ------------------------------------------------------------------------
\* Bounds of the model
\* ------------------------------------------------------------------------

\* number of container instances handed to one CheckUpdates cycle
MaxContainers == 2

\* number of UpdateStandaloneContainer operations in flight at once
MaxUpdaters == 2

\* number of member images handed to one UpdateComposeProject call
MaxImages == 2

\* number of containers the runtime lists
MaxListed == 3

\* length of the generated part of an image reference
MaxLen == 3

\* number of containers the runtime lists while a request is served
MaxServed == 2

\* number of fragments an error message handed to formatErrorMessage has
MaxFragments == 2

\* ------------------------------------------------------------------------
\* strings package, on sequences of characters
\* ------------------------------------------------------------------------

HasPrefix(s, prefix) ==
    /\ Len(s) >= Len(prefix)
    /\ SubSeq(s, 1, Len(prefix)) = prefix

TrimPrefix(s, prefix) ==
    IF HasPrefix(s, prefix) THEN SubSeq(s, Len(prefix) + 1, Len(s)) ELSE s

Contains(s, substr) ==
    \E i \in 1..(Len(s) - Len(substr) + 1) :
        SubSeq(s, i, i + Len(substr) - 1) = substr

\* index of the first occurrence of the one-character separator, 0 if none
IndexOf(s, sep) ==
    IF \E i \in 1..Len(s) : s[i] = sep
    THEN CHOOSE i \in 1..Len(s) : s[i] = sep /\ \A k \in 1..(i - 1) : s[k] # sep
    ELSE 0

\* strings.SplitN(s, sep, 2): at most two parts, split at the first separator
SplitN2(s, sep) ==
    LET i == IndexOf(s, sep)
    IN  IF i = 0 THEN <<s>>
        ELSE <<SubSeq(s, 1, i - 1), SubSeq(s, i + 1, Len(s))>>

\* the whole string taken for its first part
SplitFirst_Whole(s, sep) == s

\* strings.Split(s, sep)[0]: the part before the first separator
SplitFirst(s, sep) ==
    LET i == IndexOf(s, sep)
    IN  IF i = 0 THEN s ELSE SubSeq(s, 1, i - 1)

\* ------------------------------------------------------------------------
\* isLocalImage
\* ------------------------------------------------------------------------

Str_sha256 == <<"s", "h", "a", "2", "5", "6", ":">>
Str_localhostSlash == <<"l", "o", "c", "a", "l", "h", "o", "s", "t", "/">>
Str_localhostColon == <<"l", "o", "c", "a", "l", "h", "o", "s", "t", ":">>

\* the heuristic without the hyphen-or-underscore rule
isLocalImage_NoNamePattern(imageName) ==
    \/ HasPrefix(imageName, Str_sha256)
    \/ HasPrefix(imageName, Str_localhostSlash)
    \/ HasPrefix(imageName, Str_localhostColon)

isLocalImage(imageName) ==
    IF HasPrefix(imageName, Str_sha256) THEN TRUE
    ELSE IF HasPrefix(imageName, Str_localhostSlash)
            \/ HasPrefix(imageName, Str_localhostColon) THEN TRUE
    ELSE LET parts == SplitN2(imageName, "/")
             baseName == SplitFirst(imageName, ":")
         IN  IF Len(parts) > 1
                /\ (Contains(parts[1], <<".">>) \/ Contains(parts[1], <<":">>))
             THEN FALSE
             ELSE /\ ~Contains(baseName, <<"/">>)
                  /\ (Contains(baseName, <<"-">>) \/ Contains(baseName, <<"_">>))

\* ------------------------------------------------------------------------
\* The runtime's image store and the registry (behind docker.DockerClient)
\* ------------------------------------------------------------------------

\* image references carried by the instances of a cycle
Ref_nginx == <<"n", "g", "i", "n", "x">>
Ref_redis == <<"r", "e", "d", "i", "s", ":", "7">>
Ref_myapp == <<"m", "y", "-", "a", "p", "p">>

ImageRefs == {Ref_nginx, Ref_redis, Ref_myapp}
RegistryRefs == {r \in ImageRefs : ~isLocalImage(r)}

\* image inspection records (types.ImageInspect: ID and RepoDigests)
Img_old == [ID |-> "sha256:id-old", RepoDigests |-> <<"sha256:aaa">>]
Img_new == [ID |-> "sha256:id-new", RepoDigests |-> <<"sha256:bbb">>]
Img_built == [ID |-> "sha256:id-built", RepoDigests |-> <<>>]

\* Client.GetImageDigest on an inspection record: first repository digest,
\* else the image ID
DigestOf(inspect) ==
    IF Len(inspect.RepoDigests) > 0 THEN inspect.RepoDigests[1] ELSE inspect.ID

None == "none"

\* sync.Mutex in its zero state: no goroutine holds it
Unlocked == <<>>
NilErr == "nil"

\* ------------------------------------------------------------------------
\* State
\* ------------------------------------------------------------------------

VARIABLES
    groups,         \* []models.ContainerGroup handed to CheckUpdates
    imageDigests,   \* per-cycle cache: image reference -> latest digest
    mu,             \* holder of the cycle's mutex, or Unlocked
    pc,             \* position of each per-instance goroutine
    latestDigest,   \* goroutine local: latestDigest
    digest,         \* goroutine local: digest returned after the pull
    currentDigest,  \* goroutine local: currentDigest
    mainPc,         \* position of CheckUpdates itself
    checkErr,       \* error returned by CheckUpdates
    localImages,    \* runtime image store: reference -> inspection record
    registry,       \* remote registry: reference -> inspection record
    runningImage,   \* image each instance was created from (its ImageID)
    pullCalls,      \* PullImage calls per reference in this cycle
    latestCalls,    \* post-pull GetImageDigest calls per reference
    runtime,        \* the runtime's containers: identifier -> container
    originals,      \* the runtime's containers before any update began
    upc,            \* position of each UpdateStandaloneContainer call
    containerID,    \* argument containerID of each call
    containerJSON,  \* local: the inspection record
    params,         \* local: the extracted *models.ContainerParams
    newContainerID, \* local: identifier returned by CreateContainer
    updErr,         \* error returned by each call
    calls,          \* runtime calls issued by each call, in order
    created,        \* arguments each call passed to CreateContainer
    cpc,            \* position of the UpdateComposeProject call
    workDir,        \* argument workDir
    containerImages,\* argument containerImages
    imageIdx,       \* position of the pull loop in containerImages
    composeCalls,   \* client calls and external commands issued, in order
    composeErr,     \* error returned by UpdateComposeProject
    project,        \* deployment of the compose project on the host
    listed,         \* what the runtime's container listing returns
    gpc,            \* position of the GetContainerGroups call
    containerList,  \* local containers: the slice ListContainers returned
    listIdx,        \* position of the loop over containers
    composeProjects,\* local: project name -> group under construction
    standaloneGroups, \* local: the standalone groups, in list order
    result,         \* the groups returned by GetContainerGroups
    listErr,        \* the error returned by GetContainerGroups
    listCalls,      \* runtime calls issued by GetContainerGroups, in order
    imageRef,       \* argument imageName of an isLocalImage call
    classified,     \* whether the call has returned
    isLocal,        \* the value it returned
    request,        \* the request served: its operation and path variable id
    hpc,            \* position of the handler serving it
    group,          \* local group of HandleUpdate: nil or the group found
    invoked,        \* orchestrator calls made by HandleUpdate, in order
    handlerCalls,   \* runtime calls made by handleLifecycleOperation
    lifecycleName,  \* local containerName of handleLifecycleOperation
    response,       \* status code and body written to the ResponseWriter
    errorResponse,  \* local errResp: nil or what createErrorResponse built
    errorText,      \* err.Error() of the argument of a formatErrorMessage call
    formatted,      \* whether the call has returned
    userMessage     \* the value it returned

checkVars == <<groups, imageDigests, mu, pc, latestDigest, digest,
               currentDigest, mainPc, checkErr, localImages, registry,
               runningImage, pullCalls, latestCalls>>

updVars == <<runtime, originals, upc, containerID, containerJSON, params,
             newContainerID, updErr, calls, created>>

composeVars == <<cpc, workDir, containerImages, imageIdx, composeCalls,
                 composeErr, project>>

discVars == <<listed, gpc, containerList, listIdx, composeProjects,
              standaloneGroups, result, listErr, listCalls>>

classVars == <<imageRef, classified, isLocal>>

handVars == <<request, hpc, group, invoked, handlerCalls, lifecycleName,
              response, errorResponse>>

fmtVars == <<errorText, formatted, userMessage>>

vars == <<checkVars, updVars, composeVars, discVars, classVars, handVars,
          fmtVars>>

\* what the steps of one operation leave alone: the state of the others
outsideCheck ==
    <<updVars, composeVars, discVars, classVars, handVars, fmtVars>>
outsideUpdate ==
    <<checkVars, composeVars, discVars, classVars, handVars, fmtVars>>
outsideCompose ==
    <<checkVars, updVars, discVars, classVars, handVars, fmtVars>>
outsideGroups ==
    <<checkVars, updVars, composeVars, classVars, handVars, fmtVars>>
outsideFormat ==
    <<checkVars, updVars, composeVars, discVars, classVars, handVars>>
outsideClassify ==
    <<checkVars, updVars, composeVars, discVars, handVars, fmtVars>>

\* ------------------------------------------------------------------------
\* Inputs of a cycle
\* ------------------------------------------------------------------------

\* an instance as GetContainerGroups builds it (flags and digests unset)
FreshProfile ==
    [ImageDigest |-> "", LatestDigest |-> "", HasUpdate |-> FALSE,
     State |-> "running"]

\* an instance handed back in with the values of an earlier cycle
StaleProfile ==
    [ImageDigest |-> "sha256:prev", LatestDigest |-> "sha256:prev2",
     HasUpdate |-> TRUE, State |-> "exited"]

\* entry values of the instances of a cycle: every other instance carries
\* the values of an earlier cycle
EntryProfile(n) ==
    IF n % 2 = 1 THEN StaleProfile ELSE FreshProfile

\* the image references in a fixed order; the goroutines are identical, so
\* a fleet is given by how many instances carry each reference
RefOrder == <<Ref_myapp, Ref_nginx, Ref_redis>>

Fleets ==
    {f \in [1..MaxContainers -> 1..Len(RefOrder)] :
        \A n \in 1..(MaxContainers - 1) : f[n] <= f[n + 1]}

ContainerInfo(n, image, profile) ==
    [ID |-> n, Image |-> image, ImageDigest |-> profile.ImageDigest,
     LatestDigest |-> profile.LatestDigest, State |-> profile.State,
     HasUpdate |-> profile.HasUpdate]

RECURSIVE SumSeq(_)
SumSeq(s) == IF s = <<>> THEN 0 ELSE s[1] + SumSeq(Tail(s))

\* ways of spreading the instances over groups, as sequences of group
\* sizes: one compose project, a compose project and a standalone
\* instance, an empty group followed by a compose project
Layouts ==
    { <<MaxContainers>>, <<MaxContainers - 1, 1>>, <<0, MaxContainers>> }

\* number of the first instance of group i under a layout
Offset(sizes, i) == SumSeq(SubSeq(sizes, 1, i - 1))

\* the group-level flags on entry are those of an earlier cycle
MakeGroups(sizes, infos) ==
    [i \in 1..Len(sizes) |->
        [Containers |-> [j \in 1..sizes[i] |-> infos[Offset(sizes, i) + j]],
         HasUpdates |-> (i % 2 = 1),
         AllRunning |-> (i % 2 = 1)]]

\* the goroutines of a cycle: one per instance, named by (group, position)
Tasks == {t \in (1..Len(groups)) \X (1..MaxContainers) :
            t[2] <= Len(groups[t[1]].Containers)}

Container(t) == groups[t[1]].Containers[t[2]]

InitCycleOver(layouts) ==
    /\ \E sizes \in layouts, fleet \in Fleets :
          LET infos == [n \in 1..MaxContainers |->
                           ContainerInfo(n, RefOrder[fleet[n]], EntryProfile(n))]
          IN  /\ groups = MakeGroups(sizes, infos)
              /\ runningImage = [n \in 1..MaxContainers |->
                                   IF isLocalImage(infos[n].Image) THEN Img_built
                                   ELSE Img_old]
    /\ imageDigests = <<>>
    /\ mu = Unlocked
    /\ pc = [t \in Tasks |-> "begin"]
    /\ latestDigest = [t \in Tasks |-> ""]
    /\ digest = [t \in Tasks |-> ""]
    /\ currentDigest = [t \in Tasks |-> ""]
    /\ mainPc = "wait"
    /\ checkErr = None
    /\ localImages = [r \in ImageRefs |->
                        IF isLocalImage(r) THEN Img_built ELSE Img_old]
    /\ registry = [r \in RegistryRefs |-> Img_old]
    /\ pullCalls = [r \in ImageRefs |-> 0]
    /\ latestCalls = [r \in ImageRefs |-> 0]

InitCycle == InitCycleOver(Layouts)

\* ------------------------------------------------------------------------
\* CheckUpdates: the per-instance goroutine
\* ------------------------------------------------------------------------

\* the flag written through the first member of the task's group
SetHasUpdate_FirstOfGroup(t, b) ==
    [groups EXCEPT ![t[1]].Containers[1].HasUpdate = b]

\* c.HasUpdate = b, through the task's own pointer c
SetHasUpdate(t, b) ==
    [groups EXCEPT ![t[1]].Containers[t[2]].HasUpdate = b]

\* the comparison inverted
HasUpdateOf_Inverted(current, latest) == current = latest

\* c.HasUpdate = currentDigest != latestDigest
HasUpdateOf(current, latest) == current # latest

\* positions at which the goroutine is about to call mu.Lock()
AfterLock(t) ==
    CASE pc[t] = "begin" ->
            IF isLocalImage(Container(t).Image) THEN "csLocal" ELSE "csRead"
      [] pc[t] = "lockWrite" -> "csWrite"
      [] pc[t] = "lockFinal" -> "csFinal"
      [] pc[t] = "lockFailPull" -> "csFailPull"
      [] pc[t] = "lockFailLatest" -> "csFailLatest"
      [] pc[t] = "lockFailCurrent" -> "csFailCurrent"

\* a lock taken without waiting for its holder
Lock_NoWait(t) ==
    /\ mainPc = "wait"
    /\ pc[t] \in {"begin", "lockWrite", "lockFinal", "lockFailPull",
                 "lockFailLatest", "lockFailCurrent"}
    /\ pc' = [pc EXCEPT ![t] = AfterLock(t)]
    /\ mu' = t
    /\ UNCHANGED <<groups, imageDigests, latestDigest, digest, currentDigest,
                   mainPc, checkErr, localImages, registry, runningImage,
                   pullCalls, latestCalls>>

\* mu.Lock(): blocks until the mutex is free
Lock(t) ==
    /\ mainPc = "wait"
    /\ pc[t] \in {"begin", "lockWrite", "lockFinal", "lockFailPull",
                 "lockFailLatest", "lockFailCurrent"}
    /\ mu = Unlocked
    /\ pc' = [pc EXCEPT ![t] = AfterLock(t)]
    /\ mu' = t
    /\ UNCHANGED <<groups, imageDigests, latestDigest, digest, currentDigest,
                   mainPc, checkErr, localImages, registry, runningImage,
                   pullCalls, latestCalls>>

\* a locally built image skipped without writing the flag
SkipLocal_KeepFlag(t) ==
    /\ pc[t] = "csLocal"
    /\ mu = t
    /\ pc' = [pc EXCEPT ![t] = "doneLocal"]
    /\ mu' = Unlocked
    /\ UNCHANGED <<groups, imageDigests, latestDigest, digest, currentDigest,
                   mainPc, checkErr, localImages, registry, runningImage,
                   pullCalls, latestCalls>>

\* locally built image: c.HasUpdate = false; mu.Unlock(); return
SkipLocal(t) ==
    /\ pc[t] = "csLocal"
    /\ mu = t
    /\ groups' = SetHasUpdate(t, FALSE)
    /\ pc' = [pc EXCEPT ![t] = "doneLocal"]
    /\ mu' = Unlocked
    /\ UNCHANGED <<imageDigests, latestDigest, digest, currentDigest, mainPc,
                   checkErr, localImages, registry, runningImage,
                   pullCalls, latestCalls>>

\* a cache lookup that keeps the mutex across the runtime calls that follow
ReadCache_KeepLock(t) ==
    LET imageName == Container(t).Image
        exists == imageName \in DOMAIN imageDigests
    IN  /\ pc[t] = "csRead"
        /\ mu = t
        /\ latestDigest' = [latestDigest EXCEPT
                              ![t] = IF exists THEN imageDigests[imageName] ELSE ""]
        /\ pc' = [pc EXCEPT ![t] = IF exists THEN "getCurrent" ELSE "pull"]
        /\ UNCHANGED <<groups, imageDigests, mu, digest, currentDigest, mainPc,
                       checkErr, localImages, registry, runningImage,
                       pullCalls, latestCalls>>

\* latestDigest, exists := imageDigests[imageName]; mu.Unlock()
ReadCache(t) ==
    LET imageName == Container(t).Image
        exists == imageName \in DOMAIN imageDigests
    IN  /\ pc[t] = "csRead"
        /\ mu = t
        /\ latestDigest' = [latestDigest EXCEPT
                              ![t] = IF exists THEN imageDigests[imageName] ELSE ""]
        /\ pc' = [pc EXCEPT ![t] = IF exists THEN "getCurrent" ELSE "pull"]
        /\ mu' = Unlocked
        /\ UNCHANGED <<groups, imageDigests, digest, currentDigest, mainPc,
                       checkErr, localImages, registry, runningImage,
                       pullCalls, latestCalls>>

\* client.PullImage(ctx, imageName): on success the reference now names the
\* registry's image in the runtime's store; the call may also fail
PullImage(t) ==
    LET imageName == Container(t).Image
    IN  /\ pc[t] = "pull"
        /\ pullCalls' = [pullCalls EXCEPT ![imageName] = @ + 1]
        /\ \/ /\ localImages' = [localImages EXCEPT ![imageName] = registry[imageName]]
              /\ pc' = [pc EXCEPT ![t] = "getLatest"]
           \/ /\ pc' = [pc EXCEPT ![t] = "lockFailPull"]
              /\ UNCHANGED localImages
        /\ UNCHANGED <<groups, imageDigests, mu, latestDigest, digest,
                       currentDigest, mainPc, checkErr, registry, runningImage,
                       latestCalls>>

\* digest, err := client.GetImageDigest(ctx, imageName), after the pull
GetLatestDigest(t) ==
    LET imageName == Container(t).Image
    IN  /\ pc[t] = "getLatest"
        /\ latestCalls' = [latestCalls EXCEPT ![imageName] = @ + 1]
        /\ \/ /\ digest' = [digest EXCEPT ![t] = DigestOf(localImages[imageName])]
              /\ pc' = [pc EXCEPT ![t] = "lockWrite"]
           \/ /\ pc' = [pc EXCEPT ![t] = "lockFailLatest"]
              /\ UNCHANGED digest
        /\ UNCHANGED <<groups, imageDigests, mu, latestDigest, currentDigest,
                       mainPc, checkErr, localImages, registry, runningImage,
                       pullCalls>>

\* imageDigests[imageName] = digest; latestDigest = digest; mu.Unlock()
WriteCache(t) ==
    LET imageName == Container(t).Image
    IN  /\ pc[t] = "csWrite"
        /\ mu = t
        /\ imageDigests' = [r \in DOMAIN imageDigests \cup {imageName} |->
                              IF r = imageName THEN digest[t] ELSE imageDigests[r]]
        /\ latestDigest' = [latestDigest EXCEPT ![t] = digest[t]]
        /\ pc' = [pc EXCEPT ![t] = "getCurrent"]
        /\ mu' = Unlocked
        /\ UNCHANGED <<groups, digest, currentDigest, mainPc, checkErr,
                       localImages, registry, runningImage, pullCalls,
                       latestCalls>>

\* currentDigest, err := client.GetImageDigest(ctx, c.Image)
GetCurrentDigest(t) ==
    /\ pc[t] = "getCurrent"
    /\ \/ /\ currentDigest' = [currentDigest EXCEPT
                                 ![t] = DigestOf(localImages[Container(t).Image])]
          /\ pc' = [pc EXCEPT ![t] = "lockFinal"]
       \/ /\ pc' = [pc EXCEPT ![t] = "lockFailCurrent"]
          /\ UNCHANGED currentDigest
    /\ UNCHANGED <<groups, imageDigests, mu, latestDigest, digest, mainPc,
                   checkErr, localImages, registry, runningImage,
                   pullCalls, latestCalls>>

\* c.ImageDigest, c.LatestDigest, c.HasUpdate are set; mu.Unlock()
Finalize(t) ==
    /\ pc[t] = "csFinal"
    /\ mu = t
    /\ groups' = [groups EXCEPT
                    ![t[1]].Containers[t[2]].ImageDigest = currentDigest[t],
                    ![t[1]].Containers[t[2]].LatestDigest = latestDigest[t],
                    ![t[1]].Containers[t[2]].HasUpdate =
                        HasUpdateOf(currentDigest[t], latestDigest[t])]
    /\ pc' = [pc EXCEPT ![t] = "doneChecked"]
    /\ mu' = Unlocked
    /\ UNCHANGED <<imageDigests, latestDigest, digest, currentDigest, mainPc,
                   checkErr, localImages, registry, runningImage,
                   pullCalls, latestCalls>>

\* the return site of each of the three soft-failure blocks
FailedPc(p) ==
    CASE p = "csFailPull" -> "failedPull"
      [] p = "csFailLatest" -> "failedLatest"
      [] p = "csFailCurrent" -> "failedCurrent"

\* a soft-failure block that also blanks the instance's digests
MarkFailed_ClearDigests(t) ==
    /\ pc[t] \in {"csFailPull", "csFailLatest", "csFailCurrent"}
    /\ mu = t
    /\ groups' = [groups EXCEPT
                    ![t[1]].Containers[t[2]].ImageDigest = "",
                    ![t[1]].Containers[t[2]].LatestDigest = "",
                    ![t[1]].Containers[t[2]].HasUpdate = FALSE]
    /\ pc' = [pc EXCEPT ![t] = FailedPc(pc[t])]
    /\ mu' = Unlocked
    /\ UNCHANGED <<imageDigests, latestDigest, digest, currentDigest, mainPc,
                   checkErr, localImages, registry, runningImage,
                   pullCalls, latestCalls>>

\* a soft-failure block that returns without writing the flag
MarkFailed_KeepFlag(t) ==
    /\ pc[t] \in {"csFailPull", "csFailLatest", "csFailCurrent"}
    /\ mu = t
    /\ pc' = [pc EXCEPT ![t] = FailedPc(pc[t])]
    /\ mu' = Unlocked
    /\ UNCHANGED <<groups, imageDigests, latestDigest, digest, currentDigest,
                   mainPc, checkErr, localImages, registry, runningImage,
                   pullCalls, latestCalls>>

\* a failed pull or digest resolution: logger.Warn; c.HasUpdate = false;
\* mu.Unlock(); return
MarkFailed(t) ==
    /\ pc[t] \in {"csFailPull", "csFailLatest", "csFailCurrent"}
    /\ mu = t
    /\ groups' = SetHasUpdate(t, FALSE)
    /\ pc' = [pc EXCEPT ![t] = FailedPc(pc[t])]
    /\ mu' = Unlocked
    /\ UNCHANGED <<imageDigests, latestDigest, digest, currentDigest, mainPc,
                   checkErr, localImages, registry, runningImage,
                   pullCalls, latestCalls>>

\* ------------------------------------------------------------------------
\* CheckUpdates: wg.Wait() and the group-level roll-up
\* ------------------------------------------------------------------------

FailedPcs == {"failedPull", "failedLatest", "failedCurrent"}
DonePcs == {"doneLocal", "doneChecked"} \cup FailedPcs

areAllContainersRunning(containers) ==
    IF Len(containers) = 0 THEN FALSE
    ELSE \A k \in 1..Len(containers) : containers[k].State = "running"

\* the flag raised only when every member is flagged
GroupHasUpdates_All(containers) ==
    \A k \in 1..Len(containers) : containers[k].HasUpdate

\* group.HasUpdates = false, then true if any member has HasUpdate
GroupHasUpdates(containers) ==
    \E k \in 1..Len(containers) : containers[k].HasUpdate

\* CheckUpdates returns nil, also when goroutines ended in a soft failure
CheckResult == NilErr

\* the roll-up run without waiting for the goroutines
Rollup_Early ==
    /\ mainPc = "wait"
    /\ groups' = [i \in 1..Len(groups) |->
                    [groups[i] EXCEPT
                        !.HasUpdates = GroupHasUpdates(groups[i].Containers),
                        !.AllRunning = areAllContainersRunning(groups[i].Containers)]]
    /\ checkErr' = CheckResult
    /\ mainPc' = "done"
    /\ UNCHANGED <<imageDigests, mu, pc, latestDigest, digest, currentDigest,
                   localImages, registry, runningImage, pullCalls,
                   latestCalls>>

\* wg.Wait(), then the loop over groups, then return nil
Rollup ==
    /\ mainPc = "wait"
    /\ \A t \in Tasks : pc[t] \in DonePcs
    /\ groups' = [i \in 1..Len(groups) |->
                    [groups[i] EXCEPT
                        !.HasUpdates = GroupHasUpdates(groups[i].Containers),
                        !.AllRunning = areAllContainersRunning(groups[i].Containers)]]
    /\ checkErr' = CheckResult
    /\ mainPc' = "done"
    /\ UNCHANGED <<imageDigests, mu, pc, latestDigest, digest, currentDigest,
                   localImages, registry, runningImage, pullCalls,
                   latestCalls>>

\* ------------------------------------------------------------------------
\* Environment: the registry publishes a new image under a reference
\* ------------------------------------------------------------------------

RegistryPush(r) ==
    /\ mainPc = "wait"
    /\ \E t \in Tasks : pc[t] \notin DonePcs /\ Container(t).Image = r
    /\ registry[r] = Img_old
    /\ registry' = [registry EXCEPT ![r] = Img_new]
    /\ UNCHANGED <<groups, imageDigests, mu, pc, latestDigest, digest,
                   currentDigest, mainPc, checkErr, localImages, runningImage,
                   pullCalls, latestCalls>>

NextCheck ==
    \/ \E t \in Tasks : Lock(t) /\ UNCHANGED outsideCheck
    \/ \E t \in Tasks : SkipLocal(t) /\ UNCHANGED outsideCheck
    \/ \E t \in Tasks : ReadCache(t) /\ UNCHANGED outsideCheck
    \/ \E t \in Tasks : PullImage(t) /\ UNCHANGED outsideCheck
    \/ \E t \in Tasks : GetLatestDigest(t) /\ UNCHANGED outsideCheck
    \/ \E t \in Tasks : WriteCache(t) /\ UNCHANGED outsideCheck
    \/ \E t \in Tasks : GetCurrentDigest(t) /\ UNCHANGED outsideCheck
    \/ \E t \in Tasks : Finalize(t) /\ UNCHANGED outsideCheck
    \/ \E t \in Tasks : MarkFailed(t) /\ UNCHANGED outsideCheck
    \/ Rollup /\ UNCHANGED outsideCheck
    \/ \E r \in RegistryRefs : RegistryPush(r) /\ UNCHANGED outsideCheck

\* ------------------------------------------------------------------------
\* Go values that may be nil: slices, maps and pointers
\* ------------------------------------------------------------------------

NilSlice == [nil |-> TRUE, elems |-> <<>>]
Slice(elems) == [nil |-> FALSE, elems |-> elems]

\* nat.PortMap: port -> host bindings, as a set of entries with distinct ports
NilPortMap == [nil |-> TRUE, entries |-> {}]
PortMap(entries) == [nil |-> FALSE, entries |-> entries]

\* nat.PortSet and the key set of the Networks map
NilSet == [nil |-> TRUE, keys |-> {}]
KeySet(keys) == [nil |-> FALSE, keys |-> keys]

NilPtr == [nil |-> TRUE]

\* ------------------------------------------------------------------------
\* The runtime's containers (behind docker.DockerClient)
\* ------------------------------------------------------------------------

ID_c1 == <<"c", "1">>
ID_c2 == <<"c", "2">>
ID_gone == <<"g", "o", "n", "e">>

Name_web == <<"/", "w", "e", "b">>
Name_db == <<"/", "d", "b">>

\* a container started with image and environment only
SimpleConfig ==
    [nil |-> FALSE, Image |-> Ref_nginx, Env |-> Slice(<<"TEST=value">>),
     Cmd |-> NilSlice, Entrypoint |-> NilSlice, Labels |-> NilSet,
     ExposedPorts |-> NilSet]

SimpleHostConfig ==
    [nil |-> FALSE, Binds |-> NilSlice, PortBindings |-> NilPortMap,
     RestartPolicy |-> "no", Resources |-> "unlimited"]

\* a container with volumes, environment, ports, labels and networks
ComplexConfig ==
    [nil |-> FALSE, Image |-> Ref_redis,
     Env |-> Slice(<<"TEST_VAR=test_value", "ANOTHER_VAR=another_value">>),
     Cmd |-> Slice(<<"sleep", "3600">>), Entrypoint |-> NilSlice,
     Labels |-> KeySet({"test.label"}),
     ExposedPorts |-> KeySet({"80/tcp", "443/tcp"})]

ComplexHostConfig ==
    [nil |-> FALSE, Binds |-> Slice(<<"/tmp/data:/data", "/etc/app:/conf">>),
     PortBindings |-> PortMap({[port |-> "80/tcp",
                                bindings |-> <<[HostIP |-> "0.0.0.0",
                                                HostPort |-> "8080"]>>]}),
     RestartPolicy |-> "unless-stopped", Resources |-> "limited"]

NoNetworkSettings == NilPtr
BridgeNetwork == [nil |-> FALSE, Networks |-> KeySet({"bridge"})]
TwoNetworks == [nil |-> FALSE, Networks |-> KeySet({"bridge", "backend"})]

\* what the runtime holds for the first container
Profiles ==
    { [Config |-> SimpleConfig, HostConfig |-> SimpleHostConfig,
       NetworkSettings |-> NoNetworkSettings],
      [Config |-> ComplexConfig, HostConfig |-> ComplexHostConfig,
       NetworkSettings |-> TwoNetworks],
      [Config |-> NilPtr, HostConfig |-> SimpleHostConfig,
       NetworkSettings |-> BridgeNetwork],
      [Config |-> SimpleConfig, HostConfig |-> NilPtr,
       NetworkSettings |-> BridgeNetwork] }

RuntimeContainer(name, state, profile) ==
    [Name |-> name, State |-> state, Config |-> profile.Config,
     HostConfig |-> profile.HostConfig,
     NetworkSettings |-> profile.NetworkSettings]

\* Client.InspectContainer: the types.ContainerJSON of a container
InspectOf(c) ==
    [Name |-> c.Name, Config |-> c.Config, HostConfig |-> c.HostConfig,
     NetworkSettings |-> c.NetworkSettings]

\* one identifier handed out to every CreateContainer call
NewID_Shared(o) == <<"n", "e", "w">>

\* the identifiers the runtime hands out, one per CreateContainer call
NewID(o) == <<"n", "e", "w", ToString(o)>>

\* the name a container is known by, without the runtime's leading slash
NameInUse(name) ==
    \E id \in DOMAIN runtime : runtime[id].Name = <<"/">> \o name

\* ------------------------------------------------------------------------
\* ExtractContainerParams
\* ------------------------------------------------------------------------

\* the map of the source handed on as it is, nil when the source is nil
CopyPortBindings_Alias(src) == src

\* portBindings := make(nat.PortMap); copy every entry if the source is set
CopyPortBindings(src) ==
    PortMap(IF ~src.nil THEN src.entries ELSE {})

\* binds := []string{}; append(binds, hostConfig.Binds...) if set
CopyBinds(src) ==
    Slice(IF ~src.nil THEN src.elems ELSE <<>>)

\* networks: the names of NetworkSettings.Networks (iteration order of the
\* map is unspecified, the names are kept as a set)
CopyNetworks(ns) ==
    KeySet(IF ~ns.nil /\ ~ns.Networks.nil THEN ns.Networks.keys ELSE {})

\* the name taken as the runtime reports it
ParamsName_KeepSlash(name) == name

\* the container name without the runtime's leading slash
ParamsName(name) == TrimPrefix(name, <<"/">>)

\* a missing host configuration reported together with what could be read
ExtractContainerParams_Partial(json) ==
    IF json.Config.nil
    THEN [err |-> "container config is nil", params |-> NilPtr]
    ELSE IF json.HostConfig.nil
    THEN [err |-> "container host config is nil",
          params |-> [nil |-> FALSE, Image |-> json.Config.Image,
                      Name |-> ParamsName(json.Name), Env |-> json.Config.Env]]
    ELSE [err |-> NilErr,
          params |->
            [nil |-> FALSE,
             Image |-> json.Config.Image,
             Name |-> ParamsName(json.Name),
             Env |-> json.Config.Env,
             Cmd |-> json.Config.Cmd,
             Entrypoint |-> json.Config.Entrypoint,
             PortBindings |-> CopyPortBindings(json.HostConfig.PortBindings),
             Binds |-> CopyBinds(json.HostConfig.Binds),
             Networks |-> CopyNetworks(json.NetworkSettings),
             RestartPolicy |-> json.HostConfig.RestartPolicy,
             Labels |-> json.Config.Labels,
             Resources |-> json.HostConfig.Resources]]

\* if Config == nil / if HostConfig == nil: return nil, error; else the
\* snapshot and a nil error
ExtractContainerParams(json) ==
    IF json.Config.nil
    THEN [err |-> "container config is nil", params |-> NilPtr]
    ELSE IF json.HostConfig.nil
    THEN [err |-> "container host config is nil", params |-> NilPtr]
    ELSE [err |-> NilErr,
          params |->
            [nil |-> FALSE,
             Image |-> json.Config.Image,
             Name |-> ParamsName(json.Name),
             Env |-> json.Config.Env,
             Cmd |-> json.Config.Cmd,
             Entrypoint |-> json.Config.Entrypoint,
             PortBindings |-> CopyPortBindings(json.HostConfig.PortBindings),
             Binds |-> CopyBinds(json.HostConfig.Binds),
             Networks |-> CopyNetworks(json.NetworkSettings),
             RestartPolicy |-> json.HostConfig.RestartPolicy,
             Labels |-> json.Config.Labels,
             Resources |-> json.HostConfig.Resources]]

\* ------------------------------------------------------------------------
\* UpdateStandaloneContainer
\* ------------------------------------------------------------------------

Updaters == 1..MaxUpdaters

NoErr == [nil |-> TRUE]
StepError(step, target) == [nil |-> FALSE, step |-> step, target |-> target]

\* a runtime call as observed at the client: its argument and whether it
\* returned without error
Call(name, arg, ok) == [call |-> name, arg |-> arg, ok |-> ok]

Log(o, name, arg, ok) ==
    calls' = [calls EXCEPT ![o] = Append(@, Call(name, arg, ok))]

\* return fmt.Errorf("failed to <step> <target>: %w", err)
Fail(o, step, target) ==
    /\ upc' = [upc EXCEPT ![o] = "failed"]
    /\ updErr' = [updErr EXCEPT ![o] = StepError(step, target)]

\* Step 1: client.InspectContainer(ctx, containerID)
StepInspect(o) ==
    LET id == containerID[o]
    IN  /\ upc[o] = "inspect"
        /\ \/ /\ id \in DOMAIN runtime
              /\ Log(o, "InspectContainer", id, TRUE)
              /\ containerJSON' = [containerJSON EXCEPT ![o] = InspectOf(runtime[id])]
              /\ upc' = [upc EXCEPT ![o] = "extract"]
              /\ UNCHANGED updErr
           \/ /\ Log(o, "InspectContainer", id, FALSE)
              /\ Fail(o, "inspect container", id)
              /\ UNCHANGED containerJSON
        /\ UNCHANGED <<runtime, originals, containerID, params, newContainerID,
                       created>>

\* Step 2: ExtractContainerParams(containerJSON)
StepExtract(o) ==
    LET r == ExtractContainerParams(containerJSON[o])
    IN  /\ upc[o] = "extract"
        /\ IF r.err # NilErr
           THEN /\ Fail(o, "extract container parameters", containerID[o])
                /\ UNCHANGED params
           ELSE /\ params' = [params EXCEPT ![o] = r.params]
                /\ upc' = [upc EXCEPT ![o] = "pull"]
                /\ UNCHANGED updErr
        /\ UNCHANGED <<runtime, originals, containerID, containerJSON,
                       newContainerID, calls, created>>

\* a pull whose error is logged but not returned
StepPull_IgnoreError(o) ==
    /\ upc[o] = "pull"
    /\ \E ok \in BOOLEAN : Log(o, "PullImage", params[o].Image, ok)
    /\ upc' = [upc EXCEPT ![o] = "stop"]
    /\ UNCHANGED <<runtime, originals, containerID, containerJSON, params,
                   newContainerID, updErr, created>>

\* Step 3: client.PullImage(ctx, params.Image)
StepPull(o) ==
    /\ upc[o] = "pull"
    /\ \/ /\ Log(o, "PullImage", params[o].Image, TRUE)
          /\ upc' = [upc EXCEPT ![o] = "stop"]
          /\ UNCHANGED updErr
       \/ /\ Log(o, "PullImage", params[o].Image, FALSE)
          /\ Fail(o, "pull latest image", params[o].Image)
    /\ UNCHANGED <<runtime, originals, containerID, containerJSON, params,
                   newContainerID, created>>

\* a stop whose error is logged but not returned
StepStop_IgnoreError(o) ==
    LET id == containerID[o]
    IN  /\ upc[o] = "stop"
        /\ \/ /\ id \in DOMAIN runtime
              /\ Log(o, "StopContainer", id, TRUE)
              /\ runtime' = [runtime EXCEPT ![id].State = "exited"]
           \/ /\ Log(o, "StopContainer", id, FALSE)
              /\ UNCHANGED runtime
        /\ upc' = [upc EXCEPT ![o] = "remove"]
        /\ UNCHANGED <<originals, containerID, containerJSON, params,
                       newContainerID, updErr, created>>

\* Step 4: client.StopContainer(ctx, containerID)
StepStop(o) ==
    LET id == containerID[o]
    IN  /\ upc[o] = "stop"
        /\ \/ /\ id \in DOMAIN runtime
              /\ Log(o, "StopContainer", id, TRUE)
              /\ runtime' = [runtime EXCEPT ![id].State = "exited"]
              /\ upc' = [upc EXCEPT ![o] = "remove"]
              /\ UNCHANGED updErr
           \/ /\ Log(o, "StopContainer", id, FALSE)
              /\ Fail(o, "stop container", id)
              /\ UNCHANGED runtime
        /\ UNCHANGED <<originals, containerID, containerJSON, params,
                       newContainerID, created>>

\* a removal that falls back to whichever instance carries the captured
\* name when the identifier is gone
StepRemove_ByName(o) ==
    LET id == containerID[o]
        named == {k \in DOMAIN runtime :
                    runtime[k].Name = <<"/">> \o params[o].Name}
        gone == IF id \in DOMAIN runtime THEN {id} ELSE named
    IN  /\ upc[o] = "remove"
        /\ \/ /\ gone # {}
              /\ Log(o, "RemoveContainer", id, TRUE)
              /\ runtime' = [k \in DOMAIN runtime \ gone |-> runtime[k]]
              /\ upc' = [upc EXCEPT ![o] = "create"]
              /\ UNCHANGED updErr
           \/ /\ Log(o, "RemoveContainer", id, FALSE)
              /\ Fail(o, "remove container", id)
              /\ UNCHANGED runtime
        /\ UNCHANGED <<originals, containerID, containerJSON, params,
                       newContainerID, created>>

\* Step 5: client.RemoveContainer(ctx, containerID)
StepRemove(o) ==
    LET id == containerID[o]
    IN  /\ upc[o] = "remove"
        /\ \/ /\ id \in DOMAIN runtime
              /\ Log(o, "RemoveContainer", id, TRUE)
              /\ runtime' = [k \in DOMAIN runtime \ {id} |-> runtime[k]]
              /\ upc' = [upc EXCEPT ![o] = "create"]
              /\ UNCHANGED updErr
           \/ /\ Log(o, "RemoveContainer", id, FALSE)
              /\ Fail(o, "remove container", id)
              /\ UNCHANGED runtime
        /\ UNCHANGED <<originals, containerID, containerJSON, params,
                       newContainerID, created>>

\* a replacement configured without exposed ports
ExposedPortsOf_Empty(p) == KeySet({})

\* Step 6: exposedPorts are the keys of params.PortBindings
ExposedPortsOf(p) == KeySet({e.port : e \in p.PortBindings.entries})

ContainerConfigOf(p) ==
    [nil |-> FALSE, Image |-> p.Image, Env |-> p.Env, Cmd |-> p.Cmd,
     Entrypoint |-> p.Entrypoint, Labels |-> p.Labels,
     ExposedPorts |-> ExposedPortsOf(p)]

HostConfigOf(p) ==
    [nil |-> FALSE, PortBindings |-> p.PortBindings, Binds |-> p.Binds,
     RestartPolicy |-> p.RestartPolicy, Resources |-> p.Resources]

\* arguments of client.CreateContainer
CreateArgs(p) ==
    [nil |-> FALSE, config |-> ContainerConfigOf(p),
     hostConfig |-> HostConfigOf(p), name |-> p.Name]

\* the container the runtime builds from the arguments: named with the
\* runtime's leading slash, not started, attached to the default network
CreatedContainer(args) ==
    [Name |-> <<"/">> \o args.name, State |-> "created",
     Config |-> args.config, HostConfig |-> args.hostConfig,
     NetworkSettings |-> BridgeNetwork]

\* a failed create answered by putting the old instance back
StepCreate_Rollback(o) ==
    LET p == params[o]
        old == containerID[o]
    IN  /\ upc[o] = "create"
        /\ created' = [created EXCEPT ![o] = CreateArgs(p)]
        /\ \/ /\ ~NameInUse(p.Name)
              /\ Log(o, "CreateContainer", p.Name, TRUE)
              /\ runtime' = [k \in DOMAIN runtime \cup {NewID(o)} |->
                               IF k = NewID(o) THEN CreatedContainer(CreateArgs(p))
                               ELSE runtime[k]]
              /\ newContainerID' = [newContainerID EXCEPT ![o] = NewID(o)]
              /\ upc' = [upc EXCEPT ![o] = "start"]
              /\ UNCHANGED updErr
           \/ /\ ~NameInUse(p.Name)
              /\ calls' = [calls EXCEPT ![o] =
                             @ \o <<Call("CreateContainer", p.Name, FALSE),
                                    Call("CreateContainer", p.Name, TRUE)>>]
              /\ runtime' = [k \in DOMAIN runtime \cup {old} |->
                               IF k = old THEN originals[old] ELSE runtime[k]]
              /\ Fail(o, "create new container", p.Name)
              /\ UNCHANGED newContainerID
        /\ UNCHANGED <<originals, containerID, containerJSON, params>>

\* Step 7: client.CreateContainer(ctx, containerConfig, hostConfig, params.Name)
\* the runtime refuses a name already in use
StepCreate(o) ==
    LET p == params[o]
    IN  /\ upc[o] = "create"
        /\ created' = [created EXCEPT ![o] = CreateArgs(p)]
        /\ \/ /\ ~NameInUse(p.Name)
              /\ Log(o, "CreateContainer", p.Name, TRUE)
              /\ runtime' = [k \in DOMAIN runtime \cup {NewID(o)} |->
                               IF k = NewID(o) THEN CreatedContainer(CreateArgs(p))
                               ELSE runtime[k]]
              /\ newContainerID' = [newContainerID EXCEPT ![o] = NewID(o)]
              /\ upc' = [upc EXCEPT ![o] = "start"]
              /\ UNCHANGED updErr
           \/ /\ Log(o, "CreateContainer", p.Name, FALSE)
              /\ Fail(o, "create new container", p.Name)
              /\ UNCHANGED <<runtime, newContainerID>>
        /\ UNCHANGED <<originals, containerID, containerJSON, params>>

\* Step 8: client.StartContainer(ctx, newContainerID)
StepStart(o) ==
    LET id == newContainerID[o]
    IN  /\ upc[o] = "start"
        /\ \/ /\ id \in DOMAIN runtime
              /\ Log(o, "StartContainer", id, TRUE)
              /\ runtime' = [runtime EXCEPT ![id].State = "running"]
              /\ upc' = [upc EXCEPT ![o] = "done"]
              /\ UNCHANGED updErr
           \/ /\ Log(o, "StartContainer", id, FALSE)
              /\ Fail(o, "start new container", id)
              /\ UNCHANGED runtime
        /\ UNCHANGED <<originals, containerID, containerJSON, params,
                       newContainerID, created>>

NextUpdate ==
    \/ \E o \in Updaters : StepInspect(o) /\ UNCHANGED outsideUpdate
    \/ \E o \in Updaters : StepExtract(o) /\ UNCHANGED outsideUpdate
    \/ \E o \in Updaters : StepPull(o) /\ UNCHANGED outsideUpdate
    \/ \E o \in Updaters : StepStop(o) /\ UNCHANGED outsideUpdate
    \/ \E o \in Updaters : StepRemove(o) /\ UNCHANGED outsideUpdate
    \/ \E o \in Updaters : StepCreate(o) /\ UNCHANGED outsideUpdate
    \/ \E o \in Updaters : StepStart(o) /\ UNCHANGED outsideUpdate

\* ------------------------------------------------------------------------
\* UpdateComposeProject
\* ------------------------------------------------------------------------

WorkDir_none == <<>>
WorkDir_app == <<"/", "a", "p", "p">>

Cmd_down == <<"docker", "compose", "down">>
Cmd_up == <<"docker", "compose", "up", "-d", "--build">>

\* what a failing external command may have written before it exited
Outputs == {"", "no configuration file provided"}

\* a call issued by the operation: a method of docker.DockerClient or a
\* command run through os/exec in a directory, with its outcome and the
\* combined output the caller captured
ComposeCall(name, arg, dir, ok, output) ==
    [call |-> name, arg |-> arg, dir |-> dir, ok |-> ok, output |-> output]

ComposeLog(c) == composeCalls' = Append(composeCalls, c)

\* the errors the operation returns: the step, its subject and the attached
\* command output
ComposeError(step, subject, output) ==
    [nil |-> FALSE, step |-> step, subject |-> subject, output |-> output]

ComposeFail(e) ==
    /\ cpc' = "failed"
    /\ composeErr' = e

\* the precondition never rejecting
WorkDirMissing_Never(dir) == FALSE

\* if workDir == ""
WorkDirMissing(dir) == dir = <<>>

\* where the operation continues once the pull loop is at position i
AfterPull(i) == IF i > Len(containerImages) THEN "down" ELSE "pull"

\* the working-directory precondition, before Step 1
ComposeCheckWorkDir ==
    /\ cpc = "checkDir"
    /\ IF WorkDirMissing(workDir)
       THEN ComposeFail(ComposeError("working directory is required",
                                     <<>>, ""))
       ELSE /\ cpc' = AfterPull(imageIdx)
            /\ UNCHANGED composeErr
    /\ UNCHANGED <<workDir, containerImages, imageIdx, composeCalls, project>>

\* a pull loop that passes over locally built images without a call
ComposePull_SkipLocal ==
    LET image == containerImages[imageIdx]
    IN  /\ cpc = "pull"
        /\ \/ /\ isLocalImage(image)
              /\ imageIdx' = imageIdx + 1
              /\ cpc' = AfterPull(imageIdx + 1)
              /\ UNCHANGED <<composeErr, composeCalls>>
           \/ /\ ~isLocalImage(image)
              /\ ComposeLog(ComposeCall("client.PullImage", image, <<>>, TRUE, ""))
              /\ imageIdx' = imageIdx + 1
              /\ cpc' = AfterPull(imageIdx + 1)
              /\ UNCHANGED composeErr
           \/ /\ ~isLocalImage(image)
              /\ ComposeLog(ComposeCall("client.PullImage", image, <<>>, FALSE, ""))
              /\ ComposeFail(ComposeError("failed to pull image", image, ""))
              /\ UNCHANGED imageIdx
        /\ UNCHANGED <<workDir, containerImages, project>>

\* a pull loop that logs a failed pull and goes on to the next image
ComposePull_Continue ==
    LET image == containerImages[imageIdx]
    IN  /\ cpc = "pull"
        /\ \E ok \in BOOLEAN :
              ComposeLog(ComposeCall("client.PullImage", image, <<>>, ok, ""))
        /\ imageIdx' = imageIdx + 1
        /\ cpc' = AfterPull(imageIdx + 1)
        /\ UNCHANGED <<workDir, containerImages, composeErr, project>>

\* Step 1: client.PullImage(ctx, image) for the next member image
ComposePull ==
    LET image == containerImages[imageIdx]
    IN  /\ cpc = "pull"
        /\ \/ /\ ComposeLog(ComposeCall("client.PullImage", image, <<>>, TRUE, ""))
              /\ imageIdx' = imageIdx + 1
              /\ cpc' = AfterPull(imageIdx + 1)
              /\ UNCHANGED composeErr
           \/ /\ ComposeLog(ComposeCall("client.PullImage", image, <<>>, FALSE, ""))
              /\ ComposeFail(ComposeError("failed to pull image", image, ""))
              /\ UNCHANGED imageIdx
        /\ UNCHANGED <<workDir, containerImages, project>>

\* a tear-down whose failure is logged but not returned
ComposeDown_IgnoreError ==
    /\ cpc = "down"
    /\ \/ /\ ComposeLog(ComposeCall("exec.Command", Cmd_down, workDir, TRUE, ""))
          /\ project' = "down"
       \/ \E output \in Outputs, left \in {project, "down"} :
             /\ ComposeLog(ComposeCall("exec.Command", Cmd_down, workDir,
                                       FALSE, output))
             /\ project' = left
    /\ cpc' = "up"
    /\ UNCHANGED <<workDir, containerImages, imageIdx, composeErr>>

\* Step 2: exec.CommandContext(ctx, "docker", "compose", "down") in workDir;
\* a failing command may or may not have taken the project down
ComposeDown ==
    /\ cpc = "down"
    /\ \/ /\ ComposeLog(ComposeCall("exec.Command", Cmd_down, workDir, TRUE, ""))
          /\ project' = "down"
          /\ cpc' = "up"
          /\ UNCHANGED composeErr
       \/ \E output \in Outputs, left \in {project, "down"} :
             /\ ComposeLog(ComposeCall("exec.Command", Cmd_down, workDir,
                                       FALSE, output))
             /\ project' = left
             /\ ComposeFail(ComposeError("failed to execute 'docker compose down'",
                                         <<>>, output))
    /\ UNCHANGED <<workDir, containerImages, imageIdx>>

\* Step 3: exec.CommandContext(ctx, "docker", "compose", "up", "-d",
\* "--build") in workDir
ComposeUp ==
    /\ cpc = "up"
    /\ \/ /\ ComposeLog(ComposeCall("exec.Command", Cmd_up, workDir, TRUE, ""))
          /\ project' = "redeployed"
          /\ cpc' = "done"
          /\ UNCHANGED composeErr
       \/ \E output \in Outputs :
             /\ ComposeLog(ComposeCall("exec.Command", Cmd_up, workDir,
                                       FALSE, output))
             /\ ComposeFail(ComposeError(
                    "failed to execute 'docker compose up -d --build'",
                    <<>>, output))
             /\ UNCHANGED project
    /\ UNCHANGED <<workDir, containerImages, imageIdx>>

NextCompose ==
    \/ ComposeCheckWorkDir /\ UNCHANGED outsideCompose
    \/ ComposePull /\ UNCHANGED outsideCompose
    \/ ComposeDown /\ UNCHANGED outsideCompose
    \/ ComposeUp /\ UNCHANGED outsideCompose

\* the member image lists a call may be handed
ImageLists ==
    UNION {[1..n -> ImageRefs] : n \in 0..MaxImages}

InitComposeUpdate ==
    /\ cpc = "checkDir"
    /\ workDir \in {WorkDir_none, WorkDir_app}
    /\ containerImages \in ImageLists
    /\ imageIdx = 1
    /\ composeCalls = <<>>
    /\ composeErr = NoErr
    /\ project = "deployed"

\* no compose project update has been requested
IdleCompose ==
    /\ cpc = "idle"
    /\ workDir = <<>>
    /\ containerImages = <<>>
    /\ imageIdx = 1
    /\ composeCalls = <<>>
    /\ composeErr = NoErr
    /\ project = "deployed"

\* ------------------------------------------------------------------------
\* GetContainerGroups
\* ------------------------------------------------------------------------

Label_project == "com.docker.compose.project"
Label_workingDir == "com.docker.compose.project.working_dir"

\* map[string]string: nil, or keys with their values
NilLabels == [nil |-> TRUE, kv |-> <<>>]
Labels(kv) == [nil |-> FALSE, kv |-> kv]

\* m[key], the empty string when the key is absent or the map is nil
MapGet(m, key) ==
    IF ~m.nil /\ key \in DOMAIN m.kv THEN m.kv[key] ELSE <<>>

\* _, exists := m[key]
MapHas(m, key) == ~m.nil /\ key \in DOMAIN m.kv

Project_app == <<"a", "p", "p">>
Project_blog == <<"b", "l", "o", "g">>

\* the label maps of listed containers: none, labels of something else, an
\* empty project label, projects with and without a working directory
LabelMaps ==
    { NilLabels,
      Labels([k \in {"some.other.label"} |-> <<"v">>]),
      Labels([k \in {Label_project} |-> <<>>]),
      Labels([k \in {Label_project, Label_workingDir} |->
                IF k = Label_project THEN Project_app ELSE WorkDir_app]),
      Labels([k \in {Label_project} |-> Project_app]),
      Labels([k \in {Label_project, Label_workingDir} |->
                IF k = Label_project THEN Project_blog
                ELSE <<"/", "b", "l", "o", "g">>]) }

States == {"running", "exited"}

\* types.Container as the runtime lists it; identifiers and names are
\* distinct per container, images alternate
ListedContainer(n, state, labels) ==
    [ID |-> <<"c", ToString(n)>>,
     Names |-> << <<"/", "n", ToString(n)>> >>,
     Image |-> IF n % 2 = 1 THEN Ref_nginx ELSE Ref_redis,
     State |-> state, Labels |-> labels]

\* the listing of n containers with the given states and label maps
Listing(n, st, lb) == [i \in 1..n |-> ListedContainer(i, st[i], lb[i])]

\* every container treated as standalone
IsComposeProject_Never(container) ==
    [isCompose |-> FALSE, projectName |-> <<>>]

IsComposeProject(container) ==
    IF container.Labels.nil
    THEN [isCompose |-> FALSE, projectName |-> <<>>]
    ELSE LET exists == MapHas(container.Labels, Label_project)
             projectName == MapGet(container.Labels, Label_project)
         IN  IF exists /\ projectName # <<>>
             THEN [isCompose |-> TRUE, projectName |-> projectName]
             ELSE [isCompose |-> FALSE, projectName |-> <<>>]

getContainerName(names) ==
    IF Len(names) = 0 THEN <<>> ELSE TrimPrefix(names[1], <<"/">>)

\* models.ContainerInfo built from a listed container
ListedInfo(container) ==
    [ID |-> container.ID, Name |-> getContainerName(container.Names),
     Image |-> container.Image, ImageDigest |-> "", LatestDigest |-> "",
     State |-> container.State, HasUpdate |-> FALSE,
     Labels |-> container.Labels]

\* models.ContainerGroup; fields not named by a literal keep their zero value
ContainerGroup(id, name, type, members, dir) ==
    [ID |-> id, Name |-> name, Type |-> type, Containers |-> members,
     WorkingDir |-> dir, HasUpdates |-> FALSE, AllRunning |-> FALSE]

\* a failed listing taken for an empty one
ListContainers_Swallowed ==
    /\ gpc = "list"
    /\ \/ /\ containerList' = listed
          /\ listCalls' = Append(listCalls, Call("ListContainers", <<>>, TRUE))
          /\ gpc' = IF Len(listed) = 0 THEN "combine" ELSE "loop"
       \/ /\ containerList' = <<>>
          /\ listCalls' = Append(listCalls, Call("ListContainers", <<>>, FALSE))
          /\ gpc' = "combine"
    /\ UNCHANGED <<listed, listIdx, composeProjects, standaloneGroups, result,
                   listErr>>

\* containers, err := client.ListContainers(ctx)
ListContainers ==
    /\ gpc = "list"
    /\ \/ /\ containerList' = listed
          /\ listCalls' = Append(listCalls, Call("ListContainers", <<>>, TRUE))
          /\ gpc' = IF Len(listed) = 0 THEN "combine" ELSE "loop"
          /\ UNCHANGED <<result, listErr>>
       \/ /\ listCalls' = Append(listCalls, Call("ListContainers", <<>>, FALSE))
          /\ gpc' = "failed"
          /\ result' = NilSlice
          /\ listErr' = "failed to list containers"
          /\ UNCHANGED containerList
    /\ UNCHANGED <<listed, listIdx, composeProjects, standaloneGroups>>

\* a container joining a project that already has a group is not appended
ProcessContainer_Dropped ==
    LET container == containerList[listIdx]
        c == IsComposeProject(container)
        containerInfo == ListedInfo(container)
    IN  /\ gpc = "loop"
        /\ IF c.isCompose
           THEN /\ composeProjects' =
                     [p \in DOMAIN composeProjects \cup {c.projectName} |->
                        IF p \in DOMAIN composeProjects
                        THEN composeProjects[p]
                        ELSE ContainerGroup(c.projectName, c.projectName, "compose",
                                   <<containerInfo>>,
                                   MapGet(container.Labels, Label_workingDir))]
                /\ UNCHANGED standaloneGroups
           ELSE /\ standaloneGroups' =
                     Append(standaloneGroups,
                            ContainerGroup(container.ID,
                                           getContainerName(container.Names),
                                           "standalone", <<containerInfo>>, <<>>))
                /\ UNCHANGED composeProjects
        /\ listIdx' = listIdx + 1
        /\ gpc' = IF listIdx = Len(containerList) THEN "combine" ELSE "loop"
        /\ UNCHANGED <<listed, containerList, result, listErr, listCalls>>

\* one iteration of the loop over containers
ProcessContainer ==
    LET container == containerList[listIdx]
        c == IsComposeProject(container)
        containerInfo == ListedInfo(container)
    IN  /\ gpc = "loop"
        /\ IF c.isCompose
           THEN /\ composeProjects' =
                     [p \in DOMAIN composeProjects \cup {c.projectName} |->
                        IF p # c.projectName THEN composeProjects[p]
                        ELSE IF p \in DOMAIN composeProjects
                        THEN [composeProjects[p] EXCEPT
                                !.Containers = Append(@, containerInfo)]
                        ELSE ContainerGroup(c.projectName, c.projectName, "compose",
                                   <<containerInfo>>,
                                   MapGet(container.Labels, Label_workingDir))]
                /\ UNCHANGED standaloneGroups
           ELSE /\ standaloneGroups' =
                     Append(standaloneGroups,
                            ContainerGroup(container.ID,
                                           getContainerName(container.Names),
                                           "standalone", <<containerInfo>>, <<>>))
                /\ UNCHANGED composeProjects
        /\ listIdx' = listIdx + 1
        /\ gpc' = IF listIdx = Len(containerList) THEN "combine" ELSE "loop"
        /\ UNCHANGED <<listed, containerList, result, listErr, listCalls>>

\* the orders in which a range over a map may visit its keys
Orders(keys) ==
    {p \in [1..Cardinality(keys) -> keys] :
        \A i, j \in 1..Cardinality(keys) : i # j => p[i] # p[j]}

\* the compose groups with AllRunning computed, in some order of the map,
\* followed by the standalone groups; nothing appended leaves the nil slice
Combine ==
    /\ gpc = "combine"
    /\ \E order \in Orders(DOMAIN composeProjects) :
          LET groupsOut ==
                [i \in 1..Len(order) |->
                   [composeProjects[order[i]] EXCEPT
                      !.AllRunning =
                          areAllContainersRunning(composeProjects[order[i]].Containers)]]
                \o standaloneGroups
          IN  result' = IF groupsOut = <<>> THEN NilSlice ELSE Slice(groupsOut)
    /\ listErr' = NilErr
    /\ gpc' = "done"
    /\ UNCHANGED <<listed, containerList, listIdx, composeProjects,
                   standaloneGroups, listCalls>>

NextGroups ==
    \/ ListContainers /\ UNCHANGED outsideGroups
    \/ ProcessContainer /\ UNCHANGED outsideGroups
    \/ Combine /\ UNCHANGED outsideGroups

InitGroups ==
    /\ \E n \in 0..MaxListed :
          \E st \in [1..n -> States], lb \in [1..n -> LabelMaps] :
              listed = Listing(n, st, lb)
    /\ gpc = "list"
    /\ containerList = <<>>
    /\ listIdx = 1
    /\ composeProjects = <<>>
    /\ standaloneGroups = <<>>
    /\ result = NilSlice
    /\ listErr = None
    /\ listCalls = <<>>

\* no discovery has been requested
IdleGroups ==
    /\ listed = <<>>
    /\ gpc = "idle"
    /\ containerList = <<>>
    /\ listIdx = 1
    /\ composeProjects = <<>>
    /\ standaloneGroups = <<>>
    /\ result = NilSlice
    /\ listErr = None
    /\ listCalls = <<>>

\* ------------------------------------------------------------------------
\* isLocalImage applied to image references
\* ------------------------------------------------------------------------

Str_localhost == <<"l", "o", "c", "a", "l", "h", "o", "s", "t">>

\* the references named by the documentation of the heuristic
Ex_digest ==
    <<"s", "h", "a", "2", "5", "6", ":", "d", "e", "a", "d", "b", "e", "e", "f">>
Ex_localhost ==
    <<"l", "o", "c", "a", "l", "h", "o", "s", "t", "/", "a", "p", "p", ":",
      "d", "e", "v">>
Ex_compose ==
    <<"m", "y", "p", "r", "o", "j", "e", "c", "t", "-", "w", "e", "b", ":",
      "l", "a", "t", "e", "s", "t">>
Ex_nginx ==
    <<"n", "g", "i", "n", "x", ":", "l", "a", "t", "e", "s", "t">>
Ex_registry ==
    <<"r", "e", "g", "i", "s", "t", "r", "y", ".", "e", "x", "a", "m", "p",
      "l", "e", ".", "c", "o", "m", "/", "t", "e", "a", "m", "/", "a", "p",
      "p", ":", "1", ".", "0">>

Examples == {Ex_digest, Ex_localhost, Ex_compose, Ex_nginx, Ex_registry}

\* the characters the heuristic tells apart, and a letter
Alphabet == {"a", "-", "_", "/", ".", ":"}

\* what a generated reference starts with
Prefixes ==
    {<<>>, Str_sha256, Str_localhostSlash, Str_localhostColon, Str_localhost}

\* the call returns isLocalImage(imageName)
Classify ==
    /\ ~classified
    /\ classified' = TRUE
    /\ isLocal' = isLocalImage(imageRef)
    /\ UNCHANGED imageRef

NextClassify ==
    Classify /\ UNCHANGED outsideClassify

InitClassifyCall ==
    /\ \/ imageRef \in Examples
       \/ \E n \in 0..MaxLen :
             \E prefix \in Prefixes, body \in [1..n -> Alphabet] :
                 imageRef = prefix \o body
    /\ classified = FALSE
    /\ isLocal = FALSE

\* no classification has been requested
IdleClassify ==
    /\ imageRef = <<>>
    /\ classified = FALSE
    /\ isLocal = FALSE

\* ------------------------------------------------------------------------
\* formatErrorMessage, createErrorResponse and the response writers
\* ------------------------------------------------------------------------

\* the if statements of formatErrorMessage in their order: the substrings
\* each looks for (alternatives joined by ||, each a set joined by &&) and
\* the message it returns
FormatRules ==
    << [anyOf |->
           {{<<"N", "o", " ", "s", "u", "c", "h", " ", "c", "o", "n", "t",
               "a", "i", "n", "e", "r">>}},
        message |->
           <<"C", "o", "n", "t", "a", "i", "n", "e", "r", " ", "n", "o",
             "t", " ", "f", "o", "u", "n", "d", ".", " ", "I", "t", " ",
             "m", "a", "y", " ", "h", "a", "v", "e", " ", "b", "e", "e",
             "n", " ", "r", "e", "m", "o", "v", "e", "d", ".">>],
       [anyOf |->
           {{<<"a", "l", "r", "e", "a", "d", "y", " ", "i", "n", " ", "p",
               "r", "o", "g", "r", "e", "s", "s">>}},
        message |->
           <<"O", "p", "e", "r", "a", "t", "i", "o", "n", " ", "a", "l",
             "r", "e", "a", "d", "y", " ", "i", "n", " ", "p", "r", "o",
             "g", "r", "e", "s", "s", ".", " ", "P", "l", "e", "a", "s",
             "e", " ", "w", "a", "i", "t", ".">>],
       [anyOf |->
           {{<<"i", "s", " ", "n", "o", "t", " ", "r", "u", "n", "n", "i",
               "n", "g">>}},
        message |->
           <<"C", "o", "n", "t", "a", "i", "n", "e", "r", " ", "i", "s",
             " ", "n", "o", "t", " ", "r", "u", "n", "n", "i", "n", "g",
             ".">>],
       [anyOf |->
           {{<<"i", "s", " ", "a", "l", "r", "e", "a", "d", "y", " ", "s",
               "t", "o", "p", "p", "e", "d">>}},
        message |->
           <<"C", "o", "n", "t", "a", "i", "n", "e", "r", " ", "i", "s",
             " ", "a", "l", "r", "e", "a", "d", "y", " ", "s", "t", "o",
             "p", "p", "e", "d", ".">>],
       [anyOf |->
           {{<<"f", "a", "i", "l", "e", "d", " ", "t", "o", " ", "p", "u",
               "l", "l">>},
            {<<"p", "u", "l", "l", " ", "a", "c", "c", "e", "s", "s", " ",
               "d", "e", "n", "i", "e", "d">>}},
        message |->
           <<"F", "a", "i", "l", "e", "d", " ", "t", "o", " ", "p", "u",
             "l", "l", " ", "i", "m", "a", "g", "e", ".", " ", "C", "h",
             "e", "c", "k", " ", "y", "o", "u", "r", " ", "i", "n", "t",
             "e", "r", "n", "e", "t", " ", "c", "o", "n", "n", "e", "c",
             "t", "i", "o", "n", " ", "a", "n", "d", " ", "i", "m", "a",
             "g", "e", " ", "n", "a", "m", "e", ".">>],
       [anyOf |->
           {{<<"p", "e", "r", "m", "i", "s", "s", "i", "o", "n", " ", "d",
               "e", "n", "i", "e", "d">>},
            {<<"a", "c", "c", "e", "s", "s", " ", "d", "e", "n", "i", "e",
               "d">>}},
        message |->
           <<"P", "e", "r", "m", "i", "s", "s", "i", "o", "n", " ", "d",
             "e", "n", "i", "e", "d", ".", " ", "C", "h", "e", "c", "k",
             " ", "D", "o", "c", "k", "e", "r", " ", "s", "o", "c", "k",
             "e", "t", " ", "p", "e", "r", "m", "i", "s", "s", "i", "o",
             "n", "s", ".">>],
       [anyOf |->
           {{<<"t", "i", "m", "e", "o", "u", "t">>},
            {<<"c", "o", "n", "t", "e", "x", "t", " ", "d", "e", "a", "d",
               "l", "i", "n", "e", " ", "e", "x", "c", "e", "e", "d", "e",
               "d">>}},
        message |->
           <<"O", "p", "e", "r", "a", "t", "i", "o", "n", " ", "t", "i",
             "m", "e", "d", " ", "o", "u", "t", ".", " ", "T", "h", "e",
             " ", "c", "o", "n", "t", "a", "i", "n", "e", "r", " ", "m",
             "a", "y", " ", "b", "e", " ", "u", "n", "r", "e", "s", "p",
             "o", "n", "s", "i", "v", "e", ".">>],
       [anyOf |->
           {{<<"n", "e", "t", "w", "o", "r", "k">>,
             <<"n", "o", "t", " ", "f", "o", "u", "n", "d">>}},
        message |->
           <<"N", "e", "t", "w", "o", "r", "k", " ", "n", "o", "t", " ",
             "f", "o", "u", "n", "d", ".", " ", "T", "h", "e", " ", "c",
             "o", "n", "t", "a", "i", "n", "e", "r", "'", "s", " ", "n",
             "e", "t", "w", "o", "r", "k", " ", "m", "a", "y", " ", "h",
             "a", "v", "e", " ", "b", "e", "e", "n", " ", "r", "e", "m",
             "o", "v", "e", "d", ".">>],
       [anyOf |->
           {{<<"p", "o", "r", "t", " ", "i", "s", " ", "a", "l", "r", "e",
               "a", "d", "y", " ", "a", "l", "l", "o", "c", "a", "t", "e",
               "d">>}},
        message |->
           <<"P", "o", "r", "t", " ", "i", "s", " ", "a", "l", "r", "e",
             "a", "d", "y", " ", "i", "n", " ", "u", "s", "e", ".", " ",
             "A", "n", "o", "t", "h", "e", "r", " ", "c", "o", "n", "t",
             "a", "i", "n", "e", "r", " ", "m", "a", "y", " ", "b", "e",
             " ", "u", "s", "i", "n", "g", " ", "t", "h", "e", " ", "s",
             "a", "m", "e", " ", "p", "o", "r", "t", ".">>],
       [anyOf |->
           {{<<"n", "o", " ", "s", "u", "c", "h", " ", "i", "m", "a", "g",
               "e">>}},
        message |->
           <<"I", "m", "a", "g", "e", " ", "n", "o", "t", " ", "f", "o",
             "u", "n", "d", ".", " ", "T", "h", "e", " ", "i", "m", "a",
             "g", "e", " ", "m", "a", "y", " ", "n", "o", "t", " ", "e",
             "x", "i", "s", "t", " ", "o", "r", " ", "h", "a", "s", " ",
             "b", "e", "e", "n", " ", "r", "e", "m", "o", "v", "e", "d",
             ".">>],
       [anyOf |->
           {{<<"C", "o", "n", "f", "l", "i", "c", "t">>}},
        message |->
           <<"C", "o", "n", "t", "a", "i", "n", "e", "r", " ", "n", "a",
             "m", "e", " ", "c", "o", "n", "f", "l", "i", "c", "t", ".",
             " ", "A", " ", "c", "o", "n", "t", "a", "i", "n", "e", "r",
             " ", "w", "i", "t", "h", " ", "t", "h", "i", "s", " ", "n",
             "a", "m", "e", " ", "a", "l", "r", "e", "a", "d", "y", " ",
             "e", "x", "i", "s", "t", "s", ".">>],
       [anyOf |->
           {{<<"w", "o", "r", "k", "i", "n", "g", " ", "d", "i", "r", "e",
               "c", "t", "o", "r", "y">>}},
        message |->
           <<"W", "o", "r", "k", "i", "n", "g", " ", "d", "i", "r", "e",
             "c", "t", "o", "r", "y", " ", "n", "o", "t", " ", "f", "o",
             "u", "n", "d", ".", " ", "T", "h", "e", " ", "c", "o", "m",
             "p", "o", "s", "e", " ", "p", "r", "o", "j", "e", "c", "t",
             " ", "d", "i", "r", "e", "c", "t", "o", "r", "y", " ", "m",
             "a", "y", " ", "h", "a", "v", "e", " ", "b", "e", "e", "n",
             " ", "m", "o", "v", "e", "d", " ", "o", "r", " ", "d", "e",
             "l", "e", "t", "e", "d", ".">>],
       [anyOf |->
           {{<<"d", "o", "c", "k", "e", "r", " ", "c", "o", "m", "p", "o",
               "s", "e">>}},
        message |->
           <<"D", "o", "c", "k", "e", "r", " ", "C", "o", "m", "p", "o",
             "s", "e", " ", "c", "o", "m", "m", "a", "n", "d", " ", "f",
             "a", "i", "l", "e", "d", ".", " ", "C", "h", "e", "c", "k",
             " ", "t", "h", "e", " ", "c", "o", "m", "p", "o", "s", "e",
             " ", "f", "i", "l", "e", " ", "a", "n", "d", " ", "p", "r",
             "o", "j", "e", "c", "t", " ", "c", "o", "n", "f", "i", "g",
             "u", "r", "a", "t", "i", "o", "n", ".">>] >>

\* the condition of one if statement
Matches(errMsg, rule) ==
    \E all \in rule.anyOf : \A substr \in all : Contains(errMsg, substr)

\* the last matching statement deciding
formatErrorMessage_LastMatch(errMsg) ==
    IF \E i \in 1..Len(FormatRules) : Matches(errMsg, FormatRules[i])
    THEN FormatRules[CHOOSE i \in 1..Len(FormatRules) :
                        /\ Matches(errMsg, FormatRules[i])
                        /\ \A k \in (i + 1)..Len(FormatRules) :
                              ~Matches(errMsg, FormatRules[k])].message
    ELSE errMsg

\* errMsg is err.Error(); the first matching statement returns, and the
\* message is returned as it is when none matches
formatErrorMessage(errMsg) ==
    IF \E i \in 1..Len(FormatRules) : Matches(errMsg, FormatRules[i])
    THEN FormatRules[CHOOSE i \in 1..Len(FormatRules) :
                        /\ Matches(errMsg, FormatRules[i])
                        /\ \A k \in 1..(i - 1) :
                              ~Matches(errMsg, FormatRules[k])].message
    ELSE errMsg

\* models.ErrorResponse, without its timestamp
createErrorResponse(operation, containerName, errMsg) ==
    [Operation |-> operation, Container |-> containerName,
     Message |-> formatErrorMessage(errMsg), Details |-> errMsg]

\* the operations of the handler, as they appear in its messages
Op_update ==
    <<"u", "p", "d", "a", "t", "e">>
Op_start ==
    <<"s", "t", "a", "r", "t">>
Op_stop ==
    <<"s", "t", "o", "p">>
Op_restart ==
    <<"r", "e", "s", "t", "a", "r", "t">>

\* the literal error messages of the handler
Txt_IDRequired ==
    <<"C", "o", "n", "t", "a", "i", "n", "e", "r", " ", "I", "D", " ", "r",
      "e", "q", "u", "i", "r", "e", "d">>
Txt_LoadFailed ==
    <<"F", "a", "i", "l", "e", "d", " ", "t", "o", " ", "l", "o", "a", "d",
      " ", "c", "o", "n", "t", "a", "i", "n", "e", "r", " ", "i", "n", "f",
      "o", "r", "m", "a", "t", "i", "o", "n">>
Txt_NotFound ==
    <<"C", "o", "n", "t", "a", "i", "n", "e", "r", " ", "n", "o", "t", " ",
      "f", "o", "u", "n", "d">>

\* what the handler wrote: the status code and the models.OperationResult in
\* the body, without its timestamp
Written(statusCode, success, errorMsg, message) ==
    [nil |-> FALSE, status |-> statusCode, Success |-> success,
     Error |-> errorMsg, Message |-> message]

\* fmt.Sprintf("Failed to %s %s", operation, containerName)
FailedTo(operation, containerName) ==
    <<"F", "a", "i", "l", "e", "d", " ", "t", "o", " ">>
        \o operation \o <<" ">> \o containerName

\* fmt.Sprintf("%s updated successfully", group.Name)
UpdatedMessage(name) ==
    name \o <<" ", "u", "p", "d", "a", "t", "e", "d", " ", "s", "u", "c",
      "c", "e", "s", "s", "f", "u", "l", "l", "y">>

\* fmt.Sprintf("Container %s %sed successfully", containerName, operation)
LifecycleMessage(containerName, operation) ==
    <<"C", "o", "n", "t", "a", "i", "n", "e", "r", " ">>
        \o containerName \o <<" ">> \o operation
        \o <<"e", "d", " ", "s", "u", "c", "c", "e", "s", "s", "f", "u",
          "l", "l", "y">>

sendSuccessResponse(operation, containerName, message) ==
    Written(200, TRUE, <<>>, message)

sendErrorResponse(operation, containerName, errorMsg, statusCode) ==
    Written(statusCode, FALSE, errorMsg, FailedTo(operation, containerName))

\* Error is errResp.Message; errResp.Details goes to the log only
sendErrorResponseWithDetails(errResp, statusCode) ==
    Written(statusCode, FALSE, errResp.Message,
            FailedTo(errResp.Operation, errResp.Container))

\* ------------------------------------------------------------------------
\* err.Error() of the errors the orchestrators and the client return
\* ------------------------------------------------------------------------

\* texts of the runtime's own errors, which the orchestrators wrap with %w:
\* "Error response from daemon: No such container", "context deadline
\* exceeded", "exit status 1"
Causes ==
    { <<"E", "r", "r", "o", "r", " ", "r", "e", "s", "p", "o", "n", "s",
        "e", " ", "f", "r", "o", "m", " ", "d", "a", "e", "m", "o", "n",
        ":", " ", "N", "o", " ", "s", "u", "c", "h", " ", "c", "o", "n",
        "t", "a", "i", "n", "e", "r">>,
      <<"c", "o", "n", "t", "e", "x", "t", " ", "d", "e", "a", "d", "l",
        "i", "n", "e", " ", "e", "x", "c", "e", "e", "d", "e", "d">>,
      <<"e", "x", "i", "t", " ", "s", "t", "a", "t", "u", "s", " ", "1">> }

\* the step named by an error of UpdateStandaloneContainer
StepText(step) ==
    CASE step = "inspect container" ->
            <<"i", "n", "s", "p", "e", "c", "t", " ", "c", "o", "n", "t",
              "a", "i", "n", "e", "r">>
      [] step = "extract container parameters" ->
            <<"e", "x", "t", "r", "a", "c", "t", " ", "c", "o", "n", "t",
              "a", "i", "n", "e", "r", " ", "p", "a", "r", "a", "m", "e",
              "t", "e", "r", "s", " ", "f", "o", "r">>
      [] step = "pull latest image" ->
            <<"p", "u", "l", "l", " ", "l", "a", "t", "e", "s", "t", " ",
              "i", "m", "a", "g", "e">>
      [] step = "stop container" ->
            <<"s", "t", "o", "p", " ", "c", "o", "n", "t", "a", "i", "n",
              "e", "r">>
      [] step = "remove container" ->
            <<"r", "e", "m", "o", "v", "e", " ", "c", "o", "n", "t", "a",
              "i", "n", "e", "r">>
      [] step = "create new container" ->
            <<"c", "r", "e", "a", "t", "e", " ", "n", "e", "w", " ", "c",
              "o", "n", "t", "a", "i", "n", "e", "r">>
      [] step = "start new container" ->
            <<"s", "t", "a", "r", "t", " ", "n", "e", "w", " ", "c", "o",
              "n", "t", "a", "i", "n", "e", "r">>

\* fmt.Errorf("failed to <step> %s: %w", target, err)
UpdateErrorText(e, cause) ==
    <<"f", "a", "i", "l", "e", "d", " ", "t", "o", " ">>
        \o StepText(e.step) \o <<" ">> \o e.target \o <<":", " ">> \o cause

\* the error ExtractContainerParams returned for an inspection record
ExtractErrorText(json) ==
    IF json.Config.nil
    THEN <<"c", "o", "n", "t", "a", "i", "n", "e", "r", " ", "c", "o", "n",
           "f", "i", "g", " ", "i", "s", " ", "n", "i", "l">>
    ELSE <<"c", "o", "n", "t", "a", "i", "n", "e", "r", " ", "h", "o", "s",
           "t", " ", "c", "o", "n", "f", "i", "g", " ", "i", "s", " ", "n",
           "i", "l">>

\* string(output) of a failed command
OutputText(output) ==
    IF output = "" THEN <<>>
    ELSE <<"n", "o", " ", "c", "o", "n", "f", "i", "g", "u", "r", "a", "t",
           "i", "o", "n", " ", "f", "i", "l", "e", " ", "p", "r", "o", "v",
           "i", "d", "e", "d">>

\* " for project %s"
ForProject(projectName) ==
    <<" ", "f", "o", "r", " ", "p", "r", "o", "j", "e", "c", "t", " ">>
        \o projectName

\* ": %w\nOutput: %s"
WithOutput(cause, output) ==
    <<":", " ">> \o cause \o <<"\n", "O", "u", "t", "p", "u", "t", ":",
      " ">>
        \o OutputText(output)

\* the errors of UpdateComposeProject for a project name
ComposeErrorText(e, projectName, cause) ==
    CASE e.step = "working directory is required" ->
            <<"w", "o", "r", "k", "i", "n", "g", " ", "d", "i", "r", "e",
              "c", "t", "o", "r", "y", " ", "i", "s", " ", "r", "e", "q",
              "u", "i", "r", "e", "d", " ", "f", "o", "r", " ", "c", "o",
              "m", "p", "o", "s", "e", " ", "p", "r", "o", "j", "e", "c",
              "t", " ">>
                \o projectName
      [] e.step = "failed to pull image" ->
            <<"f", "a", "i", "l", "e", "d", " ", "t", "o", " ", "p", "u",
              "l", "l", " ", "i", "m", "a", "g", "e", " ">>
                \o e.subject \o ForProject(projectName) \o <<":", " ">>
                \o cause
      [] e.step = "failed to execute 'docker compose down'" ->
            <<"f", "a", "i", "l", "e", "d", " ", "t", "o", " ", "e", "x",
              "e", "c", "u", "t", "e", " ", "'", "d", "o", "c", "k", "e",
              "r", " ", "c", "o", "m", "p", "o", "s", "e", " ", "d", "o",
              "w", "n", "'">>
                \o ForProject(projectName) \o WithOutput(cause, e.output)
      [] e.step = "failed to execute 'docker compose up -d --build'" ->
            <<"f", "a", "i", "l", "e", "d", " ", "t", "o", " ", "e", "x",
              "e", "c", "u", "t", "e", " ", "'", "d", "o", "c", "k", "e",
              "r", " ", "c", "o", "m", "p", "o", "s", "e", " ", "u", "p",
              " ", "-", "d", " ", "-", "-", "b", "u", "i", "l", "d", "'">>
                \o ForProject(projectName) \o WithOutput(cause, e.output)

\* ------------------------------------------------------------------------
\* A call of formatErrorMessage
\* ------------------------------------------------------------------------

\* the pieces error messages are made of: every substring the function
\* looks for, and texts it does not know ("No such container: abc123" and
\* "operation already in progress" of the tests arise by joining pieces)
Fragments ==
    UNION {UNION FormatRules[i].anyOf : i \in 1..Len(FormatRules)}
        \cup { <<"s", "o", "m", "e", " ", "u", "n", "k", "n", "o", "w", "n",
             " ", "e", "r", "r", "o", "r">>,
               <<"a", "b", "c", "1", "2", "3">>,
               <<"o", "p", "e", "r", "a", "t", "i", "o", "n">> }

\* the pieces joined by the separators error wrapping puts between them
Joined(pieces, seps) ==
    IF Len(pieces) = 0 THEN <<>>
    ELSE LET RECURSIVE Rest(_)
             Rest(i) == IF i > Len(pieces) THEN <<>>
                        ELSE seps[i - 1] \o pieces[i] \o Rest(i + 1)
         IN  pieces[1] \o Rest(2)

Separators == {<<" ">>, <<":", " ">>}

Format ==
    /\ ~formatted
    /\ formatted' = TRUE
    /\ userMessage' = formatErrorMessage(errorText)
    /\ UNCHANGED errorText

NextFormat ==
    Format /\ UNCHANGED outsideFormat

InitFormatCall ==
    /\ \E n \in 0..MaxFragments :
          \E pieces \in [1..n -> Fragments], seps \in [1..(n - 1) -> Separators] :
              errorText = Joined(pieces, seps)
    /\ formatted = FALSE
    /\ userMessage = <<>>

\* no message is being formatted
IdleFormat ==
    /\ errorText = <<>>
    /\ formatted = FALSE
    /\ userMessage = <<>>

\* ------------------------------------------------------------------------
\* OperationsHandler: HandleUpdate, HandleStart, HandleStop, HandleRestart
\* ------------------------------------------------------------------------

LifecycleOperations == {Op_start, Op_stop, Op_restart}

\* what the runtime holds for a listed container
ServedProfile(c) ==
    [Config |-> [SimpleConfig EXCEPT !.Image = c.Image],
     HostConfig |-> SimpleHostConfig, NetworkSettings |-> BridgeNetwork]

ServedRuntime(l) ==
    [id \in {l[i].ID : i \in 1..Len(l)} |->
        LET c == l[CHOOSE i \in 1..Len(l) : l[i].ID = id]
        IN  RuntimeContainer(c.Names[1], c.State, ServedProfile(c))]

\* the call of UpdateStandaloneContainer the handler makes
Served == 1

\* the orchestrator calls the handler makes, with their arguments
InvokeCompose(projectName, dir, images) ==
    [fn |-> "UpdateComposeProject", projectName |-> projectName,
     workDir |-> dir, containerImages |-> images]

InvokeStandalone(id) ==
    [fn |-> "UpdateStandaloneContainer", containerID |-> id]

\* position of the first group with the identifier, 0 if there is none
FindGroup(gs, id) ==
    IF \E i \in 1..Len(gs) : gs[i].ID = id
    THEN CHOOSE i \in 1..Len(gs) :
            gs[i].ID = id /\ \A k \in 1..(i - 1) : gs[k].ID # id
    ELSE 0

\* images = append(images, container.Image) over group.Containers
ImagesOf(g) == [i \in 1..Len(g.Containers) |-> g.Containers[i].Image]

Respond(r) ==
    /\ response' = r
    /\ hpc' = "responded"

\* errResp := createErrorResponse(...); h.sendErrorResponseWithDetails(w,
\* errResp, statusCode)
RespondWithDetails(errResp, statusCode) ==
    /\ errorResponse' = errResp
    /\ Respond(sendErrorResponseWithDetails(errResp, statusCode))

\* HandleUpdate up to the call of GetContainerGroups
HandleUpdateEntry ==
    /\ hpc = "entry"
    /\ request.operation = Op_update
    /\ IF request.id = <<>>
       THEN /\ Respond(sendErrorResponse(Op_update, <<>>, Txt_IDRequired, 400))
            /\ UNCHANGED gpc
       ELSE /\ hpc' = "groups"
            /\ gpc' = "list"
            /\ UNCHANGED response
    /\ UNCHANGED <<request, group, invoked, handlerCalls, lifecycleName,
                   errorResponse>>
    /\ UNCHANGED <<listed, containerList, listIdx, composeProjects,
                   standaloneGroups, result, listErr, listCalls>>
    /\ UNCHANGED <<checkVars, updVars, composeVars, classVars,
                   fmtVars>>

\* both orchestrators called for a compose group
HandleUpdateDispatch_Both ==
    /\ hpc = "groups"
    /\ gpc \in {"done", "failed"}
    /\ IF gpc = "failed"
       THEN /\ Respond(sendErrorResponse(Op_update, request.id, Txt_LoadFailed,
                                         500))
            /\ UNCHANGED <<group, invoked, updVars, composeVars>>
       ELSE LET i == FindGroup(result.elems, request.id)
                g == result.elems[i]
            IN  IF i = 0
                THEN /\ Respond(sendErrorResponse(Op_update, request.id,
                                                  Txt_NotFound, 404))
                     /\ UNCHANGED <<group, invoked, updVars, composeVars>>
                ELSE IF g.Type = "compose"
                THEN /\ group' = [nil |-> FALSE, at |-> i]
                     /\ invoked' = invoked
                           \o <<InvokeCompose(g.Name, g.WorkingDir, ImagesOf(g)),
                                InvokeStandalone(g.ID)>>
                     /\ cpc' = "checkDir"
                     /\ workDir' = g.WorkingDir
                     /\ containerImages' = ImagesOf(g)
                     /\ hpc' = "compose"
                     /\ UNCHANGED <<response, updVars, imageIdx, composeCalls,
                                    composeErr, project>>
                ELSE /\ group' = [nil |-> FALSE, at |-> i]
                     /\ invoked' = Append(invoked, InvokeStandalone(g.ID))
                     /\ upc' = [upc EXCEPT ![Served] = "inspect"]
                     /\ containerID' = [containerID EXCEPT ![Served] = g.ID]
                     /\ hpc' = "standalone"
                     /\ UNCHANGED <<response, composeVars, runtime, originals,
                                    containerJSON, params, newContainerID,
                                    updErr, calls, created>>
    /\ UNCHANGED <<request, handlerCalls, lifecycleName, errorResponse>>
    /\ UNCHANGED <<discVars, checkVars, classVars,
                   fmtVars>>

\* HandleUpdate from the return of GetContainerGroups to the call of the
\* orchestrator: the first group with the identifier, by its type
HandleUpdateDispatch ==
    /\ hpc = "groups"
    /\ gpc \in {"done", "failed"}
    /\ IF gpc = "failed"
       THEN /\ Respond(sendErrorResponse(Op_update, request.id, Txt_LoadFailed,
                                         500))
            /\ UNCHANGED <<group, invoked, updVars, composeVars>>
       ELSE LET i == FindGroup(result.elems, request.id)
                g == result.elems[i]
            IN  IF i = 0
                THEN /\ Respond(sendErrorResponse(Op_update, request.id,
                                                  Txt_NotFound, 404))
                     /\ UNCHANGED <<group, invoked, updVars, composeVars>>
                ELSE IF g.Type = "compose"
                THEN /\ group' = [nil |-> FALSE, at |-> i]
                     /\ invoked' = Append(invoked,
                           InvokeCompose(g.Name, g.WorkingDir, ImagesOf(g)))
                     /\ cpc' = "checkDir"
                     /\ workDir' = g.WorkingDir
                     /\ containerImages' = ImagesOf(g)
                     /\ hpc' = "compose"
                     /\ UNCHANGED <<response, updVars, imageIdx, composeCalls,
                                    composeErr, project>>
                ELSE /\ group' = [nil |-> FALSE, at |-> i]
                     /\ invoked' = Append(invoked, InvokeStandalone(g.ID))
                     /\ upc' = [upc EXCEPT ![Served] = "inspect"]
                     /\ containerID' = [containerID EXCEPT ![Served] = g.ID]
                     /\ hpc' = "standalone"
                     /\ UNCHANGED <<response, composeVars, runtime, originals,
                                    containerJSON, params, newContainerID,
                                    updErr, calls, created>>
    /\ UNCHANGED <<request, handlerCalls, lifecycleName, errorResponse>>
    /\ UNCHANGED <<discVars, checkVars, classVars,
                   fmtVars>>

\* err.Error() of the error the orchestrator returned: the runtime's own
\* text inside it is any of Causes
UpdateErrTexts ==
    IF hpc = "compose"
    THEN {ComposeErrorText(composeErr, result.elems[group.at].Name, cause) :
            cause \in Causes}
    ELSE IF updErr[Served].step = "extract container parameters"
    THEN {UpdateErrorText(updErr[Served],
                          ExtractErrorText(containerJSON[Served]))}
    ELSE {UpdateErrorText(updErr[Served], cause) : cause \in Causes}

\* HandleUpdate after the orchestrator returned
HandleUpdateRespond ==
    LET name == result.elems[group.at].Name
        updateErr == IF hpc = "compose" THEN composeErr ELSE updErr[Served]
    IN  /\ \/ hpc = "compose" /\ cpc \in {"done", "failed"}
           \/ hpc = "standalone" /\ upc[Served] \in {"done", "failed"}
        /\ IF ~updateErr.nil
           THEN \E text \in UpdateErrTexts :
                   RespondWithDetails(
                       createErrorResponse(Op_update, name, text), 500)
           ELSE /\ Respond(sendSuccessResponse(Op_update, name,
                                               UpdatedMessage(name)))
                /\ UNCHANGED errorResponse
        /\ UNCHANGED <<request, group, invoked, handlerCalls, lifecycleName>>
        /\ UNCHANGED <<discVars, updVars, composeVars, checkVars, classVars,
                   fmtVars>>

\* a lifecycle operation let through without an identifier
HandleLifecycleEntry_Unchecked ==
    /\ hpc = "entry"
    /\ request.operation \in LifecycleOperations
    /\ hpc' = "inspect"
    /\ UNCHANGED <<request, group, invoked, handlerCalls, lifecycleName,
                   response, errorResponse>>
    /\ UNCHANGED <<discVars, updVars, composeVars, checkVars, classVars,
                   fmtVars>>

\* handleLifecycleOperation: the identifier check
HandleLifecycleEntry ==
    /\ hpc = "entry"
    /\ request.operation \in LifecycleOperations
    /\ IF request.id = <<>>
       THEN Respond(sendErrorResponse(request.operation, <<>>, Txt_IDRequired,
                                      400))
       ELSE /\ hpc' = "inspect"
            /\ UNCHANGED response
    /\ UNCHANGED <<request, group, invoked, handlerCalls, lifecycleName,
                   errorResponse>>
    /\ UNCHANGED <<discVars, updVars, composeVars, checkVars, classVars,
                   fmtVars>>

\* containerName := id, replaced by the inspected name when the inspection
\* succeeds
LifecycleInspect ==
    LET id == request.id
    IN  /\ hpc = "inspect"
        /\ \/ /\ id \in DOMAIN runtime
              /\ handlerCalls' = Append(handlerCalls,
                                        Call("InspectContainer", id, TRUE))
              /\ lifecycleName' = TrimPrefix(InspectOf(runtime[id]).Name, <<"/">>)
           \/ /\ handlerCalls' = Append(handlerCalls,
                                        Call("InspectContainer", id, FALSE))
              /\ lifecycleName' = id
        /\ hpc' = "operate"
        /\ UNCHANGED <<request, group, invoked, response, errorResponse>>
        /\ UNCHANGED <<discVars, updVars, composeVars, checkVars, classVars,
                   fmtVars>>

\* the client method HandleStart, HandleStop and HandleRestart pass
OperationFunc(operation) ==
    CASE operation = Op_start -> "StartContainer"
      [] operation = Op_stop -> "StopContainer"
      [] operation = Op_restart -> "RestartContainer"

\* the state the runtime leaves a container in
StateAfter(operation) ==
    IF operation = Op_stop THEN "exited" ELSE "running"

\* operationFunc(ctx, id) and the response
LifecycleOperate ==
    LET id == request.id
        operation == request.operation
    IN  /\ hpc = "operate"
        /\ \/ /\ id \in DOMAIN runtime
              /\ handlerCalls' = Append(handlerCalls,
                                        Call(OperationFunc(operation), id, TRUE))
              /\ runtime' = [runtime EXCEPT ![id].State = StateAfter(operation)]
              /\ Respond(sendSuccessResponse(operation, lifecycleName,
                            LifecycleMessage(lifecycleName, operation)))
              /\ UNCHANGED errorResponse
           \/ /\ handlerCalls' = Append(handlerCalls,
                                        Call(OperationFunc(operation), id, FALSE))
              /\ \E cause \in Causes :
                    RespondWithDetails(
                        createErrorResponse(operation, lifecycleName, cause),
                        500)
              /\ UNCHANGED runtime
        /\ UNCHANGED <<request, group, invoked, lifecycleName>>
        /\ UNCHANGED <<originals, upc, containerID, containerJSON, params,
                       newContainerID, updErr, calls, created>>
        /\ UNCHANGED <<discVars, composeVars, checkVars, classVars,
                   fmtVars>>

\* a request being served: the handler's own steps and those of the
\* operations it calls
NextHandlers ==
    \/ HandleUpdateEntry
    \/ ListContainers /\ UNCHANGED outsideGroups
    \/ ProcessContainer /\ UNCHANGED outsideGroups
    \/ Combine /\ UNCHANGED outsideGroups
    \/ HandleUpdateDispatch
    \/ ComposeCheckWorkDir /\ UNCHANGED outsideCompose
    \/ ComposePull /\ UNCHANGED outsideCompose
    \/ ComposeDown /\ UNCHANGED outsideCompose
    \/ ComposeUp /\ UNCHANGED outsideCompose
    \/ \E o \in Updaters : StepInspect(o) /\ UNCHANGED outsideUpdate
    \/ \E o \in Updaters : StepExtract(o) /\ UNCHANGED outsideUpdate
    \/ \E o \in Updaters : StepPull(o) /\ UNCHANGED outsideUpdate
    \/ \E o \in Updaters : StepStop(o) /\ UNCHANGED outsideUpdate
    \/ \E o \in Updaters : StepRemove(o) /\ UNCHANGED outsideUpdate
    \/ \E o \in Updaters : StepCreate(o) /\ UNCHANGED outsideUpdate
    \/ \E o \in Updaters : StepStart(o) /\ UNCHANGED outsideUpdate
    \/ HandleUpdateRespond
    \/ HandleLifecycleEntry
    \/ LifecycleInspect
    \/ LifecycleOperate

\* the label maps of the containers listed while a request is served: no
\* labels, and one project with and without a working directory
ServedLabelMaps ==
    {m \in LabelMaps : m.nil \/ MapGet(m, Label_project) = Project_app}

\* the identifiers a request may carry: none, those of listed containers
\* and one more, and the project name
RequestIDs ==
    {<<>>, Project_app}
        \cup {ListedContainer(i, "running", NilLabels).ID : i \in 1..(MaxServed + 1)}

Operations == {Op_update} \cup LifecycleOperations

InitHandlers ==
    /\ \E n \in 0..MaxServed :
          \E st \in [1..n -> States], lb \in [1..n -> ServedLabelMaps] :
              listed = Listing(n, st, lb)
    /\ request \in [operation : Operations, id : RequestIDs]
    /\ hpc = "entry"
    /\ group = NilPtr
    /\ invoked = <<>>
    /\ handlerCalls = <<>>
    /\ lifecycleName = <<>>
    /\ response = NilPtr
    /\ errorResponse = NilPtr
    /\ gpc = "idle"
    /\ containerList = <<>>
    /\ listIdx = 1
    /\ composeProjects = <<>>
    /\ standaloneGroups = <<>>
    /\ result = NilSlice
    /\ listErr = None
    /\ listCalls = <<>>
    /\ runtime = ServedRuntime(listed)
    /\ originals = runtime
    /\ upc = [o \in Updaters |-> "idle"]
    /\ containerID = [o \in Updaters |-> <<>>]
    /\ containerJSON = [o \in Updaters |-> NilPtr]
    /\ params = [o \in Updaters |-> NilPtr]
    /\ newContainerID = [o \in Updaters |-> <<>>]
    /\ updErr = [o \in Updaters |-> NoErr]
    /\ calls = [o \in Updaters |-> <<>>]
    /\ created = [o \in Updaters |-> NilPtr]
    /\ cpc = "idle"
    /\ workDir = <<>>
    /\ containerImages = <<>>
    /\ imageIdx = 1
    /\ composeCalls = <<>>
    /\ composeErr = NoErr
    /\ project = "deployed"

\* no request is being served
IdleHandlers ==
    /\ request = None
    /\ hpc = "idle"
    /\ group = NilPtr
    /\ invoked = <<>>
    /\ handlerCalls = <<>>
    /\ lifecycleName = <<>>
    /\ response = NilPtr
    /\ errorResponse = NilPtr

\* ------------------------------------------------------------------------
\* Initial states and specifications
\* ------------------------------------------------------------------------

\* no update operation has been requested
IdleUpdate ==
    /\ runtime = <<>>
    /\ originals = <<>>
    /\ upc = <<>>
    /\ containerID = <<>>
    /\ containerJSON = <<>>
    /\ params = <<>>
    /\ newContainerID = <<>>
    /\ updErr = <<>>
    /\ calls = <<>>
    /\ created = <<>>

\* no detection cycle is running
IdleCheck ==
    /\ groups = <<>>
    /\ imageDigests = <<>>
    /\ mu = Unlocked
    /\ pc = <<>>
    /\ latestDigest = <<>>
    /\ digest = <<>>
    /\ currentDigest = <<>>
    /\ mainPc = "idle"
    /\ checkErr = None
    /\ localImages = <<>>
    /\ registry = <<>>
    /\ runningImage = <<>>
    /\ pullCalls = <<>>
    /\ latestCalls = <<>>

\* the identifiers update requests are made for: the operations are
\* identical, so a set of requests is given in non-decreasing order
TargetIDs == <<ID_c1, ID_c2, ID_gone>>

Requests ==
    {q \in [Updaters -> 1..Len(TargetIDs)] :
        \A o \in 1..(MaxUpdaters - 1) : q[o] <= q[o + 1]}

InitUpdates ==
    /\ \E first \in Profiles, second \in Profiles :
          runtime = [id \in {ID_c1, ID_c2} |->
                       IF id = ID_c1
                       THEN RuntimeContainer(Name_web, "running", first)
                       ELSE RuntimeContainer(Name_db, "exited", second)]
    /\ originals = runtime
    /\ \E q \in Requests : containerID = [o \in Updaters |-> TargetIDs[q[o]]]
    /\ upc = [o \in Updaters |-> "inspect"]
    /\ containerJSON = [o \in Updaters |-> NilPtr]
    /\ params = [o \in Updaters |-> NilPtr]
    /\ newContainerID = [o \in Updaters |-> <<>>]
    /\ updErr = [o \in Updaters |-> NoErr]
    /\ calls = [o \in Updaters |-> <<>>]
    /\ created = [o \in Updaters |-> NilPtr]

\* every operation but the one a specification is about is idle
IdleExcept(op) ==
    /\ op # "check" => IdleCheck
    /\ op \notin {"update", "handlers"} => IdleUpdate
    /\ op \notin {"compose", "handlers"} => IdleCompose
    /\ op \notin {"groups", "handlers"} => IdleGroups
    /\ op # "classify" => IdleClassify
    /\ op # "handlers" => IdleHandlers
    /\ op # "format" => IdleFormat

InitCheck == InitCycle /\ IdleExcept("check")
InitUpdate == InitUpdates /\ IdleExcept("update")
InitCompose == InitComposeUpdate /\ IdleExcept("compose")
InitDiscovery == InitGroups /\ IdleExcept("groups")
InitClassify == InitClassifyCall /\ IdleExcept("classify")
InitServing == InitHandlers /\ IdleExcept("handlers")
InitFormat == InitFormatCall /\ IdleExcept("format")

SpecCheck == InitCheck /\ [][NextCheck]_vars
SpecUpdate == InitUpdate /\ [][NextUpdate]_vars
SpecCompose == InitCompose /\ [][NextCompose]_vars
SpecGroups == InitDiscovery /\ [][NextGroups]_vars
SpecClassify == InitClassify /\ [][NextClassify]_vars
SpecHandlers == InitServing /\ [][NextHandlers]_vars
SpecFormat == InitFormat /\ [][NextFormat]_vars

\* the next statement of some goroutine of the cycle, or the return of
\* wg.Wait()
CycleStep ==
    \/ \E t \in Tasks :
          /\ \/ Lock(t) \/ SkipLocal(t) \/ ReadCache(t) \/ PullImage(t)
             \/ GetLatestDigest(t) \/ WriteCache(t) \/ GetCurrentDigest(t)
             \/ Finalize(t) \/ MarkFailed(t)
          /\ UNCHANGED outsideCheck
    \/ Rollup /\ UNCHANGED outsideCheck

\* a cycle in which every runtime call returns and the scheduler does not
\* stop while a goroutine or the caller of wg.Wait() can take a step; the
\* registry is under no obligation to publish anything.  Every statement
\* moves the position of a goroutine or of the caller, so the positions
\* are the subscript.  The instances form a compose project and one
\* standalone instance: the grouping plays no part in the goroutines.
SpecCheckFair ==
    /\ InitCycleOver({<<MaxContainers - 1, 1>>}) /\ IdleExcept("check")
    /\ [][NextCheck]_vars
    /\ WF_<<pc, mainPc>>(CycleStep)

\* ========================================================================
\* Properties of CheckUpdates
\* ========================================================================

\* C1: within one cycle, PullImage is called at most once per registry
\* image reference, and the latest-digest resolution that follows the pull
\* is performed at most once per reference, under every interleaving.
C1_AtMostOnePullPerReference ==
    \A r \in RegistryRefs : pullCalls[r] <= 1 /\ latestCalls[r] <= 1

\* C2: a checked registry-sourced instance that runs an image whose digest
\* differs from the digest its reference resolves to after the cycle's pull
\* ends the cycle with its update flag true.
C2_OutdatedInstanceFlagged ==
    mainPc = "done" =>
        \A t \in Tasks :
            (/\ pc[t] = "doneChecked"
             /\ DigestOf(runningImage[Container(t).ID])
                    # DigestOf(localImages[Container(t).Image]))
            => Container(t).HasUpdate

\* C3: an instance whose pull and digest resolutions succeeded carries the
\* resolved current and latest digests, and its update flag is true exactly
\* when the two differ.
C3_FlagIsDigestMismatch ==
    \A t \in Tasks :
        pc[t] = "doneChecked" =>
            /\ Container(t).ImageDigest = currentDigest[t]
            /\ Container(t).LatestDigest = latestDigest[t]
            /\ Container(t).HasUpdate
                 = (Container(t).ImageDigest # Container(t).LatestDigest)

C3_Witness ==
    /\ mainPc = "done"
    /\ \E t, u \in Tasks :
          /\ pc[t] = "doneChecked" /\ pc[u] = "doneChecked"
          /\ Container(t).ImageDigest = "sha256:bbb"
          /\ Container(t).LatestDigest = "sha256:aaa"
          /\ Container(t).HasUpdate
          /\ Container(u).ImageDigest = "sha256:bbb"
          /\ Container(u).LatestDigest = "sha256:bbb"
          /\ ~Container(u).HasUpdate

\* C4: a failed pull or digest resolution marks only that instance as
\* no-update-available; every other instance's check runs to completion
\* with its own result, and CheckUpdates returns no error.
C4_SoftFailureIsLocal ==
    mainPc = "done" =>
        /\ checkErr = NilErr
        /\ \A t \in Tasks :
              /\ pc[t] \in DonePcs
              /\ pc[t] \in FailedPcs => ~Container(t).HasUpdate
              /\ pc[t] = "doneChecked" =>
                    Container(t).HasUpdate = (currentDigest[t] # latestDigest[t])

C4_Witness ==
    /\ mainPc = "done"
    /\ \E t, u \in Tasks :
          /\ pc[t] \in FailedPcs
          /\ EntryProfile(Container(t).ID).HasUpdate
          /\ ~Container(t).HasUpdate
          /\ pc[u] = "doneChecked"
          /\ Container(u).HasUpdate

\* C5: CheckUpdates returns a non-nil error when PullImage fails for the
\* image of an instance in the given groups.
C5_PullFailureReturnsError ==
    (mainPc = "done" /\ \E t \in Tasks : pc[t] = "failedPull")
        => checkErr # NilErr

\* ========================================================================
\* Properties of UpdateStandaloneContainer
\* ========================================================================

CallNames(o) == [i \in 1..Len(calls[o]) |-> calls[o][i].call]

Called(o, name) == \E i \in 1..Len(calls[o]) : calls[o][i].call = name

CallFailed(o, name) ==
    \E i \in 1..Len(calls[o]) : calls[o][i].call = name /\ ~calls[o][i].ok

\* the instance an operation was asked to update, as it was before
Original(o) == originals[containerID[o]]

\* C6: a run that returns success has issued exactly the calls Inspect,
\* PullImage, StopContainer, RemoveContainer, CreateContainer,
\* StartContainer in this order, each returning without error; and
\* CreateContainer is never called in a run in which PullImage failed.
C6_StepOrdering ==
    \A o \in Updaters :
        /\ upc[o] = "done" =>
              calls[o] = << Call("InspectContainer", containerID[o], TRUE),
                            Call("PullImage", params[o].Image, TRUE),
                            Call("StopContainer", containerID[o], TRUE),
                            Call("RemoveContainer", containerID[o], TRUE),
                            Call("CreateContainer", params[o].Name, TRUE),
                            Call("StartContainer", newContainerID[o], TRUE) >>
        /\ CallFailed(o, "PullImage") => ~Called(o, "CreateContainer")

C6_Witness ==
    \E o, q \in Updaters :
        /\ upc[o] = "done"
        /\ CallNames(o) = <<"InspectContainer", "PullImage", "StopContainer",
                            "RemoveContainer", "CreateContainer", "StartContainer">>
        /\ upc[q] = "failed"
        /\ CallFailed(q, "PullImage")

\* the calls a run has issued when it fails at a step, and the target the
\* error names
CallsUpTo(step) ==
    CASE step = "inspect container" -> <<"InspectContainer">>
      [] step = "extract container parameters" -> <<"InspectContainer">>
      [] step = "pull latest image" -> <<"InspectContainer", "PullImage">>
      [] step = "stop container" ->
            <<"InspectContainer", "PullImage", "StopContainer">>
      [] step = "remove container" ->
            <<"InspectContainer", "PullImage", "StopContainer", "RemoveContainer">>
      [] step = "create new container" ->
            <<"InspectContainer", "PullImage", "StopContainer", "RemoveContainer",
              "CreateContainer">>
      [] step = "start new container" ->
            <<"InspectContainer", "PullImage", "StopContainer", "RemoveContainer",
              "CreateContainer", "StartContainer">>

TargetOf(o, step) ==
    CASE step \in {"inspect container", "extract container parameters",
                   "stop container", "remove container"} -> containerID[o]
      [] step = "pull latest image" -> Original(o).Config.Image
      [] step = "create new container" -> TrimPrefix(Original(o).Name, <<"/">>)
      [] step = "start new container" -> newContainerID[o]

StepNames ==
    {"inspect container", "extract container parameters", "pull latest image",
     "stop container", "remove container", "create new container",
     "start new container"}

\* C7: a run that fails at a step returns an error naming that step and its
\* target, the failing call is the last call it issued, and every call
\* before it returned without error.
C7_FailFast ==
    \A o \in Updaters :
        upc[o] = "failed" =>
            /\ ~updErr[o].nil
            /\ updErr[o].step \in StepNames
            /\ updErr[o].target = TargetOf(o, updErr[o].step)
            /\ CallNames(o) = CallsUpTo(updErr[o].step)
            /\ \A i \in 1..(Len(calls[o]) - 1) : calls[o][i].ok
            /\ calls[o][Len(calls[o])].ok
                 = (updErr[o].step = "extract container parameters")

C7_Witness ==
    \E o, q \in Updaters :
        /\ upc[o] = "failed"
        /\ updErr[o] = StepError("stop container", ID_c1)
        /\ Len(calls[o]) = 3
        /\ upc[q] = "failed"
        /\ updErr[q] = StepError("extract container parameters", ID_c2)
        /\ Len(calls[q]) = 1

FailedAfterRemove(o) ==
    /\ upc[o] = "failed"
    /\ updErr[o].step \in {"create new container", "start new container"}

\* C8: when Create or Start fails after Remove succeeded, the run reports
\* the failure and issues no further call; the old instance is not
\* re-created and no running instance carries the original name.
C8_NoCompensation ==
    \A o \in Updaters :
        FailedAfterRemove(o) =>
            /\ ~updErr[o].nil
            /\ ~calls[o][Len(calls[o])].ok
            /\ calls[o][Len(calls[o])].call \in {"CreateContainer", "StartContainer"}
            /\ Cardinality({i \in 1..Len(calls[o]) :
                              calls[o][i].call = "CreateContainer"}) = 1
            /\ containerID[o] \notin DOMAIN runtime
            /\ \A id \in DOMAIN runtime :
                  runtime[id].Name = Original(o).Name => runtime[id].State # "running"

C8_Witness ==
    \E o, q \in Updaters :
        /\ FailedAfterRemove(o)
        /\ updErr[o].step = "create new container"
        /\ Original(o).State = "running"
        /\ \A id \in DOMAIN runtime : runtime[id].Name # Original(o).Name
        /\ FailedAfterRemove(q)
        /\ updErr[q].step = "start new container"
        /\ runtime[newContainerID[q]].State = "created"

\* C9: when a run returns success, the instance with the original
\* identifier has been stopped and removed, exactly one new instance exists
\* under the original name, it was created by this run, and it is started.
C9_ReplacedByOne ==
    \A o \in Updaters :
        upc[o] = "done" =>
            /\ Called(o, "StopContainer") /\ ~CallFailed(o, "StopContainer")
            /\ Called(o, "RemoveContainer") /\ ~CallFailed(o, "RemoveContainer")
            /\ containerID[o] \notin DOMAIN runtime
            /\ {id \in DOMAIN runtime : runtime[id].Name = Original(o).Name}
                 = {newContainerID[o]}
            /\ created[o].name = TrimPrefix(Original(o).Name, <<"/">>)
            /\ Cardinality({i \in 1..Len(calls[o]) :
                              calls[o][i].call = "CreateContainer"}) = 1
            /\ runtime[newContainerID[o]].State = "running"

C9_Witness ==
    \E o \in Updaters :
        /\ upc[o] = "done"
        /\ containerID[o] = ID_c1
        /\ ID_c1 \notin DOMAIN runtime
        /\ newContainerID[o] \in DOMAIN runtime
        /\ runtime[newContainerID[o]].Name = Name_web
        /\ runtime[newContainerID[o]].State = "running"

\* C10: the configuration passed to CreateContainer has environment
\* variables, volume binds and port bindings element-for-element equal to
\* those of the inspected original instance, and nothing else of the
\* original's configuration is changed: command, entrypoint, labels,
\* exposed ports, restart policy, resources and name are the original's.
C10_OnlyImageAndIdChanged ==
    \A o \in Updaters :
        ~created[o].nil =>
            /\ created[o].config.Env.elems = Original(o).Config.Env.elems
            /\ created[o].hostConfig.Binds.elems = Original(o).HostConfig.Binds.elems
            /\ created[o].hostConfig.PortBindings.entries
                 = Original(o).HostConfig.PortBindings.entries
            /\ created[o].name = TrimPrefix(Original(o).Name, <<"/">>)
            /\ created[o].config.Cmd = Original(o).Config.Cmd
            /\ created[o].config.Entrypoint = Original(o).Config.Entrypoint
            /\ created[o].config.Labels = Original(o).Config.Labels
            /\ created[o].config.ExposedPorts.keys
                 = Original(o).Config.ExposedPorts.keys
            /\ created[o].hostConfig.RestartPolicy
                 = Original(o).HostConfig.RestartPolicy
            /\ created[o].hostConfig.Resources = Original(o).HostConfig.Resources

\* the networks an instance is attached to, as the runtime reports them
NetworksOf(c) ==
    IF c.NetworkSettings.nil THEN {} ELSE c.NetworkSettings.Networks.keys

\* C11: when a run returns success, the replacement instance is attached to
\* the same set of networks as the original instance, which is the set
\* captured in the snapshot's Networks field.
C11_NetworksReattached ==
    \A o \in Updaters :
        upc[o] = "done" =>
            /\ params[o].Networks.keys = NetworksOf(Original(o))
            /\ NetworksOf(runtime[newContainerID[o]]) = params[o].Networks.keys

\* the inspection record of a run lacks its primary or host configuration
MissingConfig(o) ==
    /\ containerJSON[o] # NilPtr
    /\ (containerJSON[o].Config.nil \/ containerJSON[o].HostConfig.nil)

\* C12: on an inspection record whose Config or HostConfig is nil,
\* ExtractContainerParams returns an error together with a nil snapshot;
\* the run of UpdateStandaloneContainer holding such a record keeps a nil
\* snapshot, fails at the extraction step, and has issued no PullImage,
\* StopContainer or RemoveContainer call.
C12_MissingConfigFailsExtraction ==
    \A o \in Updaters :
        MissingConfig(o) =>
            /\ ExtractContainerParams(containerJSON[o]).err # NilErr
            /\ ExtractContainerParams(containerJSON[o]).params = NilPtr
            /\ params[o] = NilPtr
            /\ upc[o] \in {"extract", "failed"}
            /\ upc[o] = "failed" =>
                  updErr[o].step = "extract container parameters"
            /\ CallNames(o) = <<"InspectContainer">>
            /\ containerID[o] \in DOMAIN runtime =>
                  runtime[containerID[o]] = Original(o)

C12_Witness ==
    \E o, q \in Updaters :
        /\ MissingConfig(o) /\ containerJSON[o].Config.nil
        /\ upc[o] = "failed"
        /\ MissingConfig(q) /\ ~containerJSON[q].Config.nil
        /\ upc[q] = "failed"
        /\ updErr[q] = StepError("extract container parameters", containerID[q])

\* ========================================================================
\* Properties of UpdateComposeProject
\* ========================================================================

IsPull(c) == c.call = "client.PullImage"
IsCommand(c, cmd) == c.call = "exec.Command" /\ c.arg = cmd

ComposeCallIdx == 1..Len(composeCalls)

\* C13: a call with an empty working directory fails at the precondition
\* check with the working-directory error, having issued no PullImage and
\* no external command; the deployed project is untouched.
C13_EmptyWorkDirFailsFirst ==
    workDir = WorkDir_none =>
        /\ cpc \in {"checkDir", "failed"}
        /\ composeCalls = <<>>
        /\ project = "deployed"
        /\ cpc = "failed" =>
              composeErr = ComposeError("working directory is required", <<>>, "")

C13_Witness ==
    /\ workDir = WorkDir_none
    /\ Len(containerImages) = MaxImages
    /\ cpc = "failed"
    /\ ~composeErr.nil
    /\ composeCalls = <<>>

\* C14: once the tear-down command has returned a non-zero exit, it is the
\* last thing the run does: the bring-up command is never invoked, the run
\* fails with the tear-down error carrying the captured output, and the
\* project is not redeployed.
C14_NoBringUpAfterFailedTearDown ==
    \A i \in ComposeCallIdx :
        (IsCommand(composeCalls[i], Cmd_down) /\ ~composeCalls[i].ok) =>
            /\ i = Len(composeCalls)
            /\ \A k \in ComposeCallIdx : ~IsCommand(composeCalls[k], Cmd_up)
            /\ cpc = "failed"
            /\ composeErr = ComposeError("failed to execute 'docker compose down'",
                                         <<>>, composeCalls[i].output)
            /\ project # "redeployed"

C14_Witness ==
    /\ cpc = "failed"
    /\ Len(composeCalls) = MaxImages + 1
    /\ IsCommand(composeCalls[Len(composeCalls)], Cmd_down)
    /\ ~composeCalls[Len(composeCalls)].ok
    /\ composeCalls[Len(composeCalls)].dir = WorkDir_app
    /\ composeErr.output = "no configuration file provided"
    /\ project = "down"

\* C15: the first failing pull of a member image ends the run with the
\* pull error naming that image: every earlier call is a successful pull of
\* the preceding member images in order, no later image is pulled, and
\* neither the tear-down nor the bring-up command is invoked.
C15_FailedPullAborts ==
    \A i \in ComposeCallIdx :
        (IsPull(composeCalls[i]) /\ ~composeCalls[i].ok) =>
            /\ i = Len(composeCalls)
            /\ \A k \in 1..i :
                  /\ IsPull(composeCalls[k])
                  /\ composeCalls[k].arg = containerImages[k]
                  /\ k < i => composeCalls[k].ok
            /\ cpc = "failed"
            /\ composeErr = ComposeError("failed to pull image", containerImages[i], "")
            /\ project = "deployed"

C15_Witness ==
    /\ cpc = "failed"
    /\ Len(containerImages) = MaxImages
    /\ Len(composeCalls) = 1
    /\ IsPull(composeCalls[1])
    /\ ~composeCalls[1].ok
    /\ composeErr.subject = containerImages[1]

\* ========================================================================
\* Properties of GetContainerGroups
\* ========================================================================

\* the members of the returned groups, as (group, position) pairs
Members ==
    {m \in (1..Len(result.elems)) \X (1..MaxListed) :
        m[2] <= Len(result.elems[m[1]].Containers)}

Member(m) == result.elems[m[1]].Containers[m[2]]

\* the label that makes an instance part of a compose project
HasProjectLabel(c) ==
    /\ ~c.Labels.nil
    /\ Label_project \in DOMAIN c.Labels.kv
    /\ c.Labels.kv[Label_project] # <<>>

\* C16: after a successful GetContainerGroups, every listed instance is a
\* member of exactly one returned group, at exactly one position, and every
\* member of a returned group is the ContainerInfo of a listed instance.
C16_Partition ==
    gpc = "done" =>
        /\ listErr = NilErr
        /\ \A i \in 1..Len(listed) :
              Cardinality({m \in Members : Member(m).ID = listed[i].ID}) = 1
        /\ \A m \in Members :
              \E i \in 1..Len(listed) :
                  /\ Member(m).ID = listed[i].ID
                  /\ Member(m).Image = listed[i].Image
                  /\ Member(m).State = listed[i].State
                  /\ Member(m).Labels = listed[i].Labels

C16_Witness ==
    /\ gpc = "done"
    /\ Len(listed) = MaxListed
    /\ Len(result.elems) = 2
    /\ result.elems[1].Type = "compose"
    /\ Len(result.elems[1].Containers) = MaxListed - 1
    /\ result.elems[2].Type = "standalone"

\* C17: an instance is in the compose group whose ID is the value of its
\* com.docker.compose.project label exactly when that label is present and
\* non-empty, and there is one such group per value; any other instance
\* (nil label map, label absent, label empty) is the only member of a
\* standalone group whose ID is the instance identifier.
C17_GroupedByProjectLabel ==
    gpc = "done" =>
        /\ \A i \in 1..Len(listed) :
              \A m \in Members :
                  Member(m).ID = listed[i].ID =>
                      IF HasProjectLabel(listed[i])
                      THEN /\ result.elems[m[1]].Type = "compose"
                           /\ result.elems[m[1]].ID
                                = listed[i].Labels.kv[Label_project]
                      ELSE /\ result.elems[m[1]].Type = "standalone"
                           /\ result.elems[m[1]].ID = listed[i].ID
        /\ \A g, h \in 1..Len(result.elems) :
              result.elems[g].ID = result.elems[h].ID => g = h
        /\ \A g \in 1..Len(result.elems) :
              result.elems[g].Type = "standalone" =>
                  Len(result.elems[g].Containers) = 1

C17_Witness ==
    /\ gpc = "done"
    /\ \E i, j, k \in 1..Len(listed) :
          /\ listed[i].Labels.nil
          /\ ~listed[j].Labels.nil
          /\ Label_project \in DOMAIN listed[j].Labels.kv
          /\ listed[j].Labels.kv[Label_project] = <<>>
          /\ HasProjectLabel(listed[k])
    /\ Cardinality({g \in 1..Len(result.elems) :
                      result.elems[g].Type = "standalone"}) = 2
    /\ Cardinality({g \in 1..Len(result.elems) :
                      result.elems[g].Type = "compose"}) = 1

\* C19: every group GetContainerGroups returns, compose or standalone, has
\* AllRunning true exactly when it has at least one member and every member
\* is in state running.
C19_AllRunningFlag ==
    gpc = "done" =>
        \A g \in 1..Len(result.elems) :
            result.elems[g].AllRunning
                = (/\ Len(result.elems[g].Containers) > 0
                   /\ \A k \in 1..Len(result.elems[g].Containers) :
                         result.elems[g].Containers[k].State = "running")

\* ========================================================================
\* Properties of CheckUpdates: roll-up and locally built images
\* ========================================================================

\* C18: when CheckUpdates has returned, every group's HasUpdates is true
\* exactly when at least one of its members has HasUpdate true, whatever
\* the group flag was on entry; a group without members has it false.
C18_GroupFlagIsAnyMember ==
    mainPc = "done" =>
        \A i \in 1..Len(groups) :
            /\ groups[i].HasUpdates
                 = (\E k \in 1..Len(groups[i].Containers) :
                        groups[i].Containers[k].HasUpdate)
            /\ Len(groups[i].Containers) = 0 => ~groups[i].HasUpdates

C18_Witness ==
    /\ mainPc = "done"
    /\ \E i, j \in 1..Len(groups) :
          /\ Len(groups[i].Containers) = 0
          /\ i % 2 = 1
          /\ ~groups[i].HasUpdates
          /\ j % 2 = 0
          /\ groups[j].HasUpdates
          /\ \E k, l \in 1..Len(groups[j].Containers) :
                /\ groups[j].Containers[k].HasUpdate
                /\ ~groups[j].Containers[l].HasUpdate

\* C20: the goroutine of an instance whose image reference is classified
\* locally built never reaches a PullImage or GetImageDigest call: no pull
\* and no digest resolution is counted for its reference, and once it has
\* finished the instance is marked no-update-available with its digests
\* left as they were on entry.
C20_LocalImageNoRuntimeCall ==
    \A t \in Tasks :
        isLocalImage(Container(t).Image) =>
            /\ pc[t] \in {"begin", "csLocal", "doneLocal"}
            /\ pullCalls[Container(t).Image] = 0
            /\ latestCalls[Container(t).Image] = 0
            /\ pc[t] = "doneLocal" =>
                  /\ ~Container(t).HasUpdate
                  /\ Container(t).ImageDigest
                       = EntryProfile(Container(t).ID).ImageDigest
                  /\ Container(t).LatestDigest
                       = EntryProfile(Container(t).ID).LatestDigest

C20_Witness ==
    /\ mainPc = "done"
    /\ \E t, u \in Tasks :
          /\ isLocalImage(Container(t).Image)
          /\ pc[t] = "doneLocal"
          /\ EntryProfile(Container(t).ID).HasUpdate
          /\ ~Container(t).HasUpdate
          /\ ~isLocalImage(Container(u).Image)
          /\ pullCalls[Container(u).Image] >= 1

\* ========================================================================
\* Properties of isLocalImage
\* ========================================================================

\* C21: sha256:deadbeef, localhost/app:dev and myproject-web:latest are
\* classified locally built; nginx:latest and
\* registry.example.com/team/app:1.0 are classified registry-sourced.
C21_DocumentedExamples ==
    classified =>
        /\ imageRef \in {Ex_digest, Ex_localhost, Ex_compose} => isLocal
        /\ imageRef \in {Ex_nginx, Ex_registry} => ~isLocal

C21_Witness ==
    /\ classified
    /\ imageRef = Ex_compose
    /\ isLocal

\* positions of a reference
Pos(ref) == 1..Len(ref)

\* the reference starts with the given text
StartsWith(ref, text) ==
    /\ Len(ref) >= Len(text)
    /\ \A i \in 1..Len(text) : ref[i] = text[i]

ByRawDigest(ref) == StartsWith(ref, Str_sha256)

UnderLocalhost(ref) ==
    \/ StartsWith(ref, Str_localhost \o <<"/">>)
    \/ StartsWith(ref, Str_localhost \o <<":">>)

\* position i lies in the first path component: no slash up to i
InFirstComponent(ref, i) == \A k \in 1..i : ref[k] # "/"

\* an explicit registry host segment: a first path component, ended by a
\* slash, that contains a dot or a colon
HasRegistryHost(ref) ==
    /\ \E i \in Pos(ref) : ref[i] = "/"
    /\ \E i \in Pos(ref) : InFirstComponent(ref, i) /\ ref[i] \in {".", ":"}

\* position i lies in the base name: no colon up to i
InBaseName(ref, i) == \A k \in 1..i : ref[k] # ":"

BaseNameHasSeparator(ref) ==
    \E i \in Pos(ref) : InBaseName(ref, i) /\ ref[i] \in {"-", "_"}

BaseNameHasSlash(ref) ==
    \E i \in Pos(ref) : InBaseName(ref, i) /\ ref[i] = "/"

\* C22 as stated: a reference is classified locally built exactly when it
\* is given by raw digest, or is under localhost, or has no registry host
\* segment and a base name containing a hyphen or underscore.
C22_LocalExactlyWhenStated ==
    classified =>
        isLocal = (\/ ByRawDigest(imageRef)
                   \/ UnderLocalhost(imageRef)
                   \/ /\ ~HasRegistryHost(imageRef)
                      /\ BaseNameHasSeparator(imageRef))

\* C22 amended: a reference is classified locally built exactly when it is
\* given by raw digest, or is under localhost, or has no registry host
\* segment and its base name (the text before the first colon) contains a
\* hyphen or underscore and no slash.
C22_LocalExactlyWhenUnqualified ==
    classified =>
        isLocal = (\/ ByRawDigest(imageRef)
                   \/ UnderLocalhost(imageRef)
                   \/ /\ ~HasRegistryHost(imageRef)
                      /\ BaseNameHasSeparator(imageRef)
                      /\ ~BaseNameHasSlash(imageRef))

C22_Witness ==
    /\ classified
    /\ imageRef = <<"a", "/", "-">>
    /\ ~HasRegistryHost(imageRef)
    /\ BaseNameHasSeparator(imageRef)
    /\ ~isLocal

\* ========================================================================
\* Further properties of GetContainerGroups
\* ========================================================================

\* the members of a group that carry the working-directory label
Carrying(members) ==
    {k \in 1..Len(members) :
        /\ ~members[k].Labels.nil
        /\ Label_workingDir \in DOMAIN members[k].Labels.kv}

\* C23: the working directory of a returned compose group is the
\* working-directory label value of its first member, in listing order,
\* that carries the label, also when earlier members do not carry it.
C23_WorkingDirFromFirstCarrier ==
    gpc = "done" =>
        \A g \in 1..Len(result.elems) :
            LET members == result.elems[g].Containers
            IN  (result.elems[g].Type = "compose" /\ Carrying(members) # {}) =>
                    \E k \in Carrying(members) :
                        /\ \A j \in Carrying(members) : k <= j
                        /\ result.elems[g].WorkingDir
                             = members[k].Labels.kv[Label_workingDir]

\* ========================================================================
\* Properties of CheckUpdates: waiting, locking and sharing
\* ========================================================================

\* positions inside a critical section
CsPcs == {"csLocal", "csRead", "csWrite", "csFinal", "csFailPull",
          "csFailLatest", "csFailCurrent"}

\* positions at which a goroutine is blocked in mu.Lock()
LockPcs == {"begin", "lockWrite", "lockFinal", "lockFailPull",
            "lockFailLatest", "lockFailCurrent"}

\* positions after the task's cache write
PastWritePcs == {"getCurrent", "lockFinal", "csFinal", "doneChecked",
                 "lockFailCurrent", "csFailCurrent", "failedCurrent"}

\* C24: CheckUpdates has returned only when every per-instance task has
\* finished; until then the group-level flags are those of entry, and on
\* return they are computed from the members' final flags and states.
C24_ReturnsAfterAllTasks ==
    /\ mainPc = "done" =>
          /\ \A t \in Tasks : pc[t] \in DonePcs
          /\ mu = Unlocked
          /\ \A i \in 1..Len(groups) :
                /\ groups[i].HasUpdates
                     = (\E k \in 1..Len(groups[i].Containers) :
                            groups[i].Containers[k].HasUpdate)
                /\ groups[i].AllRunning
                     = (/\ Len(groups[i].Containers) > 0
                        /\ \A k \in 1..Len(groups[i].Containers) :
                              groups[i].Containers[k].State = "running")
    /\ mainPc = "wait" =>
          \A i \in 1..Len(groups) :
              /\ groups[i].HasUpdates = (i % 2 = 1)
              /\ groups[i].AllRunning = (i % 2 = 1)

C24_Witness ==
    /\ mainPc = "done"
    /\ \E t, u \in Tasks :
          /\ pc[t] = "doneLocal"
          /\ pc[u] = "failedCurrent"
    /\ \E i \in 1..Len(groups) :
          /\ Len(groups[i].Containers) > 0
          /\ groups[i].HasUpdates # (i % 2 = 1)

\* C25: a task is at a cache read or cache write, or at any other
\* statement between Lock and Unlock, only while it holds the cycle's
\* mutex; so at most one task is inside a critical section, and every
\* cache entry is the digest a task stored in its own critical section.
C25_CacheUnderLock ==
    /\ \A t \in Tasks : (pc[t] \in CsPcs) = (mu # Unlocked /\ mu = t)
    /\ Cardinality({t \in Tasks : pc[t] \in CsPcs}) <= 1
    /\ \A r \in DOMAIN imageDigests :
          \E t \in Tasks :
              /\ Container(t).Image = r
              /\ pc[t] \in PastWritePcs
              /\ imageDigests[r] = digest[t]

C25_Witness ==
    \E t, u \in Tasks :
        /\ t # u
        /\ pc[t] = "csWrite"
        /\ mu = t
        /\ pc[u] = "begin"
        /\ Container(u).Image = Container(t).Image

\* the values an instance was handed in with
EntryValues(c) ==
    [ImageDigest |-> EntryProfile(c.ID).ImageDigest,
     LatestDigest |-> EntryProfile(c.ID).LatestDigest,
     State |-> EntryProfile(c.ID).State,
     HasUpdate |-> EntryProfile(c.ID).HasUpdate]

ValuesOf(c) ==
    [ImageDigest |-> c.ImageDigest, LatestDigest |-> c.LatestDigest,
     State |-> c.State, HasUpdate |-> c.HasUpdate]

\* C26: an Instance Snapshot is written by its own task only: while its
\* task has not finished it holds the values of entry, whatever the other
\* tasks have done, and afterwards it holds what its own task computed;
\* the task's locals are set by its own steps only.
C26_SnapshotHasOneWriter ==
    \A t \in Tasks :
        /\ pc[t] \notin DonePcs => ValuesOf(Container(t)) = EntryValues(Container(t))
        /\ pc[t] \in FailedPcs \cup {"doneLocal"} =>
              ValuesOf(Container(t))
                = [EntryValues(Container(t)) EXCEPT !.HasUpdate = FALSE]
        /\ pc[t] = "doneChecked" =>
              ValuesOf(Container(t))
                = [EntryValues(Container(t)) EXCEPT
                     !.ImageDigest = currentDigest[t],
                     !.LatestDigest = latestDigest[t],
                     !.HasUpdate = (currentDigest[t] # latestDigest[t])]
        /\ pc[t] \in {"begin", "csLocal", "csRead", "doneLocal", "pull",
                     "lockFailPull", "csFailPull", "failedPull"} =>
              latestDigest[t] = "" /\ digest[t] = "" /\ currentDigest[t] = ""

C26_Witness ==
    \E t, u \in Tasks :
        /\ t # u
        /\ t[1] = u[1]
        /\ pc[t] \in FailedPcs
        /\ pc[u] \notin DonePcs
        /\ EntryProfile(Container(u).ID).HasUpdate
        /\ Container(u).HasUpdate

\* ========================================================================
\* Properties of concurrent UpdateStandaloneContainer operations
\* ========================================================================

\* the operation is the only one on its instance, and the instance exists
Isolated(o) ==
    /\ containerID[o] \in DOMAIN originals
    /\ \A q \in Updaters : q # o => containerID[q] # containerID[o]

Succeeded(o, name) ==
    \E i \in 1..Len(calls[o]) : calls[o][i].call = name /\ calls[o][i].ok

\* C27: an operation that is the only one on its unit sees and leaves the
\* runtime as if it ran alone, under every interleaving with operations on
\* other units: its stop and remove calls name its own identifier, its
\* create call its own name, its start call the identifier it was handed;
\* no step of it is refused because of another operation; and the old and
\* the new instance of its unit are exactly what its own calls made them.
C27_DisjointUnitsIndependent ==
    \A o \in Updaters :
        Isolated(o) =>
            LET id == containerID[o]
                name == TrimPrefix(Original(o).Name, <<"/">>)
            IN  /\ \A i \in 1..Len(calls[o]) :
                      LET c == calls[o][i]
                      IN  /\ c.call \in {"InspectContainer", "StopContainer",
                                         "RemoveContainer"} => c.arg = id
                          /\ c.call = "CreateContainer" => c.arg = name
                          /\ c.call = "StartContainer" => c.arg = NewID(o)
                /\ upc[o] \in {"inspect", "extract", "pull", "stop", "remove"} =>
                      id \in DOMAIN runtime
                /\ upc[o] = "create" => ~NameInUse(name)
                /\ upc[o] = "start" => NewID(o) \in DOMAIN runtime
                /\ (id \in DOMAIN runtime) = ~Succeeded(o, "RemoveContainer")
                /\ id \in DOMAIN runtime =>
                      runtime[id]
                        = [Original(o) EXCEPT
                             !.State = IF Succeeded(o, "StopContainer")
                                       THEN "exited" ELSE @]
                /\ (NewID(o) \in DOMAIN runtime) = Succeeded(o, "CreateContainer")
                /\ NewID(o) \in DOMAIN runtime =>
                      runtime[NewID(o)]
                        = [CreatedContainer(created[o]) EXCEPT
                             !.State = IF Succeeded(o, "StartContainer")
                                       THEN "running" ELSE "created"]

C27_Witness ==
    \E o, q \in Updaters :
        /\ containerID[o] = ID_c1 /\ Isolated(o)
        /\ containerID[q] = ID_c2 /\ Isolated(q)
        /\ upc[o] = "done"
        /\ upc[q] = "done"
        /\ DOMAIN runtime = {NewID(o), NewID(q)}

\* ========================================================================
\* Properties of GetContainerGroups: runtime calls
\* ========================================================================

\* C30: a call that has passed its listing has issued exactly one runtime
\* call, ListContainers, and issues no other until it returns; when that
\* call failed, GetContainerGroups returns the nil slice together with the
\* wrapped listing error and builds no group.
C30_ListingIsTheOnlyCall ==
    /\ gpc \in {"loop", "combine", "done", "failed"} =>
          /\ Len(listCalls) = 1
          /\ listCalls[1].call = "ListContainers"
    /\ gpc = "list" => listCalls = <<>>
    /\ (listCalls # <<>> /\ ~listCalls[1].ok) =>
          /\ gpc = "failed"
          /\ result = NilSlice
          /\ listErr = "failed to list containers"
          /\ composeProjects = <<>>
          /\ standaloneGroups = <<>>
    /\ gpc = "done" => listErr = NilErr /\ listCalls[1].ok

C30_Witness ==
    /\ gpc = "failed"
    /\ Len(listed) = MaxListed
    /\ listCalls = <<Call("ListContainers", <<>>, FALSE)>>
    /\ result = NilSlice

\* ========================================================================
\* Properties of the operations handler
\* ========================================================================

UpdateRequest == hpc # "idle" /\ request.operation = Op_update

\* the returned groups carrying the requested identifier
Requested ==
    {i \in 1..Len(result.elems) : result.elems[i].ID = request.id}

\* no step of the compose orchestrator has run
ComposeUntouched ==
    /\ cpc = "idle"
    /\ composeCalls = <<>>
    /\ project = "deployed"

\* no step of the standalone orchestrator has run
StandaloneUntouched ==
    /\ \A o \in Updaters : upc[o] = "idle" /\ calls[o] = <<>>
    /\ runtime = originals

\* C28: while an update request is served at most one orchestrator call is
\* made. A call is made only for a returned group with the requested
\* identifier: for a compose group it is UpdateComposeProject with the
\* group's name, its working directory and the image of every member in
\* order, and UpdateStandaloneContainer does not run; for a standalone group
\* it is UpdateStandaloneContainer with the group's identifier, and
\* UpdateComposeProject does not run. A request answered after a successful
\* listing has made that call when a group matches; when none matches the
\* answer is the 404 failure and neither orchestrator has run.
C28_OneOrchestratorByKind ==
    UpdateRequest =>
        /\ Len(invoked) <= 1
        /\ invoked # <<>> =>
              /\ gpc = "done"
              /\ Requested # {}
              /\ \A i \in Requested :
                    LET g == result.elems[i]
                    IN  IF g.Type = "compose"
                        THEN /\ invoked[1].fn = "UpdateComposeProject"
                             /\ invoked[1].projectName = g.Name
                             /\ invoked[1].workDir = g.WorkingDir
                             /\ Len(invoked[1].containerImages) = Len(g.Containers)
                             /\ \A k \in 1..Len(g.Containers) :
                                   invoked[1].containerImages[k]
                                       = g.Containers[k].Image
                             /\ cpc # "idle"
                             /\ workDir = g.WorkingDir
                             /\ containerImages = invoked[1].containerImages
                             /\ StandaloneUntouched
                        ELSE /\ invoked[1] = InvokeStandalone(g.ID)
                             /\ upc[Served] # "idle"
                             /\ containerID[Served] = g.ID
                             /\ \A o \in Updaters \ {Served} : upc[o] = "idle"
                             /\ ComposeUntouched
        /\ invoked = <<>> => ComposeUntouched /\ StandaloneUntouched
        /\ (hpc = "responded" /\ gpc = "done") =>
              IF Requested # {}
              THEN Len(invoked) = 1
              ELSE /\ invoked = <<>>
                   /\ response.status = 404
                   /\ ~response.Success
                   /\ response.Error = Txt_NotFound

\* a compose group of two members was redeployed and a success answered
C28_Witness ==
    /\ UpdateRequest
    /\ hpc = "responded"
    /\ response.status = 200
    /\ Len(invoked) = 1
    /\ invoked[1].fn = "UpdateComposeProject"
    /\ invoked[1].containerImages = <<Ref_nginx, Ref_redis>>
    /\ project = "redeployed"

\* C29: a request without an identifier never leaves the entry of its
\* handler except to be answered; the answer is the 400 failure "Container
\* ID required", and no runtime call, external command or orchestrator call
\* has been made for it.
C29_MissingIdRejectedFirst ==
    (hpc # "idle" /\ request.id = <<>>) =>
        /\ hpc \in {"entry", "responded"}
        /\ listCalls = <<>>
        /\ handlerCalls = <<>>
        /\ invoked = <<>>
        /\ ComposeUntouched
        /\ StandaloneUntouched
        /\ gpc = "idle"
        /\ hpc = "responded" =>
              /\ response.status = 400
              /\ ~response.Success
              /\ response.Error = Txt_IDRequired
              /\ response.Message = FailedTo(request.operation, <<>>)

C29_Witness ==
    /\ hpc = "responded"
    /\ request.id = <<>>
    /\ request.operation = Op_restart
    /\ listed # <<>>
    /\ response.status = 400

\* ========================================================================
\* Properties of the failure responses
\* ========================================================================

\* the request was answered with a failure built from an error that the
\* orchestrator or the lifecycle call returned
FailureAnswered ==
    /\ hpc = "responded"
    /\ errorResponse # NilPtr

\* C31: the body answering a failed update or lifecycle operation has the
\* technical text of the error, err.Error(), in its Error field, and its
\* Message field is a different, user-facing text.
C31_ErrorFieldCarriesRawDetail ==
    FailureAnswered =>
        /\ response.Error = errorResponse.Details
        /\ response.Message # response.Error

\* ========================================================================
\* Properties of formatErrorMessage
\* ========================================================================

\* substrings and friendly texts named by the examples
Sub_NoSuchContainer ==
    <<"N", "o", " ", "s", "u", "c", "h", " ", "c", "o", "n", "t", "a", "i",
      "n", "e", "r">>
Sub_InProgress ==
    <<"a", "l", "r", "e", "a", "d", "y", " ", "i", "n", " ", "p", "r", "o",
      "g", "r", "e", "s", "s">>
Sub_Timeout ==
    <<"t", "i", "m", "e", "o", "u", "t">>
Sub_DeadlineExceeded ==
    <<"c", "o", "n", "t", "e", "x", "t", " ", "d", "e", "a", "d", "l", "i",
      "n", "e", " ", "e", "x", "c", "e", "e", "d", "e", "d">>
Friendly_NotFound ==
    <<"C", "o", "n", "t", "a", "i", "n", "e", "r", " ", "n", "o", "t", " ",
      "f", "o", "u", "n", "d", ".", " ", "I", "t", " ", "m", "a", "y", " ",
      "h", "a", "v", "e", " ", "b", "e", "e", "n", " ", "r", "e", "m", "o",
      "v", "e", "d", ".">>
Friendly_InProgress ==
    <<"O", "p", "e", "r", "a", "t", "i", "o", "n", " ", "a", "l", "r", "e",
      "a", "d", "y", " ", "i", "n", " ", "p", "r", "o", "g", "r", "e", "s",
      "s", ".", " ", "P", "l", "e", "a", "s", "e", " ", "w", "a", "i", "t",
      ".">>
Friendly_TimedOut ==
    <<"O", "p", "e", "r", "a", "t", "i", "o", "n", " ", "t", "i", "m", "e",
      "d", " ", "o", "u", "t", ".", " ", "T", "h", "e", " ", "c", "o", "n",
      "t", "a", "i", "n", "e", "r", " ", "m", "a", "y", " ", "b", "e", " ",
      "u", "n", "r", "e", "s", "p", "o", "n", "s", "i", "v", "e", ".">>

\* the rules whose condition the message satisfies
Matching == {i \in 1..Len(FormatRules) : Matches(errorText, FormatRules[i])}

\* C32: the value returned is the friendly text of the matching rule that
\* comes first in the fixed order, and the message itself when no rule
\* matches. In particular "No such container" gives the container-not-found
\* text whatever else the message holds, "already in progress" the
\* in-progress text unless "No such container" occurs, and "timeout" or
\* "context deadline exceeded" the timed-out text unless one of the six
\* rules before it matches.
C32_FirstMatchingPattern ==
    formatted =>
        /\ \A i \in Matching :
              (\A k \in Matching : i <= k) => userMessage = FormatRules[i].message
        /\ Matching = {} => userMessage = errorText
        /\ Contains(errorText, Sub_NoSuchContainer) =>
              userMessage = Friendly_NotFound
        /\ (Contains(errorText, Sub_InProgress)
              /\ ~Contains(errorText, Sub_NoSuchContainer)) =>
              userMessage = Friendly_InProgress
        /\ ((Contains(errorText, Sub_Timeout)
               \/ Contains(errorText, Sub_DeadlineExceeded))
              /\ Matching \cap (1..6) = {}) =>
              userMessage = Friendly_TimedOut

\* a message with a timeout before "No such container" was formatted
C32_Witness ==
    /\ formatted
    /\ HasPrefix(errorText, Sub_Timeout)
    /\ Contains(errorText, Sub_NoSuchContainer)
    /\ userMessage = Friendly_NotFound

\* ========================================================================
\* Properties of UpdateComposeProject: how the commands are run
\* ========================================================================

\* the tear-down and bring-up commands among the calls of the operation
CommandIdx ==
    {i \in ComposeCallIdx : composeCalls[i].arg \in {Cmd_down, Cmd_up}}

\* C33: every tear-down and bring-up command of the operation is a call of
\* the client's ExecuteCommand method with the working directory of the
\* project; none is a process started through os/exec.
C33_CommandsThroughClient ==
    \A i \in CommandIdx :
        /\ composeCalls[i].call = "client.ExecuteCommand"
        /\ composeCalls[i].dir = workDir

\* ========================================================================
\* Properties of ExtractContainerParams: complete inspection records
\* ========================================================================

\* the operation holds an inspection record with both configurations
BothConfigs(o) ==
    /\ containerJSON[o] # NilPtr
    /\ ~containerJSON[o].Config.nil
    /\ ~containerJSON[o].HostConfig.nil

\* C34: on an inspection record with Config and HostConfig,
\* ExtractContainerParams returns a nil error and a snapshot whose port
\* bindings, binds and networks are non-nil collections, empty where the
\* record has none; the record's name is "/" followed by the snapshot's
\* name. The run holding the record does not fail at the extraction step
\* and carries that snapshot from then on.
C34_CompleteRecordExtracts ==
    \A o \in Updaters :
        BothConfigs(o) =>
            LET json == containerJSON[o]
                r == ExtractContainerParams(json)
            IN  /\ r.err = NilErr
                /\ ~r.params.nil
                /\ ~r.params.PortBindings.nil
                /\ ~r.params.Binds.nil
                /\ ~r.params.Networks.nil
                /\ json.HostConfig.PortBindings.nil =>
                      r.params.PortBindings.entries = {}
                /\ json.HostConfig.Binds.nil => r.params.Binds.elems = <<>>
                /\ json.NetworkSettings.nil => r.params.Networks.keys = {}
                /\ json.Name = <<"/">> \o r.params.Name
                /\ r.params.Name # <<>> /\ r.params.Name[1] # "/"
                /\ upc[o] = "failed" =>
                      updErr[o].step # "extract container parameters"
                /\ upc[o] # "extract" => params[o] = r.params

\* a record without port bindings, binds and network settings was extracted
C34_Witness ==
    \E o \in Updaters :
        /\ BothConfigs(o)
        /\ containerJSON[o].HostConfig.PortBindings.nil
        /\ containerJSON[o].HostConfig.Binds.nil
        /\ containerJSON[o].NetworkSettings.nil
        /\ upc[o] = "pull"
        /\ params[o].PortBindings = PortMap({})
        /\ params[o].Binds = Slice(<<>>)
        /\ params[o].Networks = KeySet({})


\* ------------------------------------------------------------------------
\* C35: the digest-cache mutex is never held while PullImage or
\* GetImageDigest is in flight: whoever holds it is inside one of the
\* critical sections, and every runtime call is made by a goroutine that
\* does not hold it.  With every runtime call returning and every goroutine
\* scheduled, all goroutines finish and CheckUpdates returns.
\* ------------------------------------------------------------------------

\* positions at which a goroutine is inside a runtime call
CallPcs == {"pull", "getLatest", "getCurrent"}

HolderInCriticalSection ==
    \A t \in Tasks :
        /\ (mu # Unlocked /\ mu = t) => pc[t] \in CsPcs
        /\ pc[t] \in CallPcs => ~(mu # Unlocked /\ mu = t)

CycleOver ==
    /\ mainPc = "done"
    /\ \A t \in Tasks : pc[t] \in DonePcs

C35_NoCallUnderLockAndTermination ==
    /\ []HolderInCriticalSection
    /\ <>CycleOver

\* two goroutines on one reference, one holding the mutex while the other
\* is inside a runtime call
C35_Witness ==
    \E t, u \in Tasks :
        /\ t # u
        /\ Container(t).Image = Container(u).Image
        /\ mu # Unlocked /\ mu = t
        /\ pc[t] = "csWrite"
        /\ pc[u] \in CallPcs

\* ------------------------------------------------------------------------
\* C36: when CheckUpdates has returned, the instances of one image
\* reference whose check succeeded all carry the same LatestDigest, and it
\* is the digest the cycle's cache holds for that reference.
\* ------------------------------------------------------------------------

C36_SharedReferenceSharesLatestDigest ==
    mainPc = "done" =>
        \A t, u \in Tasks :
            (/\ pc[t] = "doneChecked"
             /\ pc[u] = "doneChecked"
             /\ Container(t).Image = Container(u).Image)
            => /\ Container(t).LatestDigest = Container(u).LatestDigest
               /\ Container(t).Image \in DOMAIN imageDigests
               /\ Container(t).LatestDigest = imageDigests[Container(t).Image]

\* ------------------------------------------------------------------------
\* C37: of two UpdateStandaloneContainer operations on one instance
\* identifier, against a runtime that refuses to stop or remove an absent
\* instance and to create under a name in use, at most one returns success,
\* and at most one instance created by them carries the original's name.
\* ------------------------------------------------------------------------

SameTarget(o1, o2) ==
    /\ o1 # o2
    /\ containerID[o1] = containerID[o2]
    /\ containerID[o1] \in DOMAIN originals

\* the instances that were not there before the operations and carry the
\* name of the original of operation o
Replacements(o) ==
    {k \in DOMAIN runtime \ DOMAIN originals :
        runtime[k].Name = originals[containerID[o]].Name}

C37_AtMostOneConcurrentUpdateSucceeds ==
    \A o1, o2 \in Updaters :
        SameTarget(o1, o2)
        => /\ ~(upc[o1] = "done" /\ upc[o2] = "done")
           /\ Cardinality(Replacements(o1)) <= 1

\* both operations got past the stop of the original; one has replaced
\* it, the other found it gone when removing it
C37_Witness ==
    \E o1, o2 \in Updaters :
        /\ SameTarget(o1, o2)
        /\ upc[o1] = "done"
        /\ Cardinality(Replacements(o1)) = 1
        /\ upc[o2] = "failed"
        /\ updErr[o2] = StepError("remove container", containerID[o2])

\* ------------------------------------------------------------------------
\* C38: the PullImage calls of UpdateComposeProject are, in order, the
\* elements of the member image list up to and including the first one
\* whose pull fails: element k of the list is the argument of call k,
\* whether or not it is classified locally built or occurred earlier in the
\* list, and the compose commands run only after a pull of every element.
\* ------------------------------------------------------------------------

Pulls == SelectSeq(composeCalls, IsPull)

C38_OnePullPerListElement ==
    /\ Len(Pulls) <= Len(containerImages)
    /\ \A k \in 1..Len(Pulls) :
          /\ Pulls[k].arg = containerImages[k]
          /\ k < Len(Pulls) => Pulls[k].ok
    /\ cpc = "pull" => Len(Pulls) = imageIdx - 1
    /\ (\E i \in ComposeCallIdx : ~IsPull(composeCalls[i]))
          => /\ Len(Pulls) = Len(containerImages)
             /\ \A k \in 1..Len(Pulls) : Pulls[k].ok
    /\ (cpc = "failed" /\ Len(Pulls) < Len(containerImages))
          => \/ Len(Pulls) = 0 /\ WorkDirMissing(workDir)
             \/ Len(Pulls) > 0 /\ ~Pulls[Len(Pulls)].ok

\* a list naming a locally built image twice, pulled twice
C38_Witness ==
    /\ cpc = "done"
    /\ Len(containerImages) = MaxImages
    /\ \A k \in 1..MaxImages : containerImages[k] = Ref_myapp
    /\ isLocalImage(Ref_myapp)
    /\ Len(Pulls) = MaxImages

\* ------------------------------------------------------------------------
\* C39: the statement that ends a per-instance check in a soft failure or
\* skips a locally built image writes nothing of the groups but that
\* instance's HasUpdate flag, which becomes false; and an instance whose
\* check has ended that way still carries the digests and the state it was
\* handed in with.
\* ------------------------------------------------------------------------

SoftEndPcs == FailedPcs \cup {"doneLocal"}

\* goroutine t ends its check softly in this step
SoftEnd(t) == pc[t] \notin SoftEndPcs /\ pc'[t] \in SoftEndPcs

SoftEndWritesFlagOnly ==
    \A t \in Tasks :
        SoftEnd(t) =>
            groups' = [groups EXCEPT ![t[1]].Containers[t[2]].HasUpdate = FALSE]

SoftEndKeepsEntryValues ==
    \A t \in Tasks :
        pc[t] \in SoftEndPcs =>
            /\ ~Container(t).HasUpdate
            /\ Container(t).ImageDigest = EntryProfile(Container(t).ID).ImageDigest
            /\ Container(t).LatestDigest = EntryProfile(Container(t).ID).LatestDigest
            /\ Container(t).State = EntryProfile(Container(t).ID).State

C39_SoftEndFrame ==
    /\ [][SoftEndWritesFlagOnly]_vars
    /\ []SoftEndKeepsEntryValues

\* an instance handed in with digests and a raised flag whose latest-digest
\* resolution failed after a successful pull
C39_Witness ==
    \E t \in Tasks :
        /\ pc[t] = "failedLatest"
        /\ EntryProfile(Container(t).ID) = StaleProfile
        /\ Container(t).ImageDigest = StaleProfile.ImageDigest
        /\ Container(t).LatestDigest = StaleProfile.LatestDigest
        /\ ~Container(t).HasUpdate
        /\ pullCalls[Container(t).Image] >= 1

\* ------------------------------------------------------------------------
\* C40: the exposed-port set handed to CreateContainer, and carried by the
\* replacement instance, is a non-nil set holding exactly the ports of the
\* captured port-binding map; a port the original exposed without a host
\* binding is not among them.
\* ------------------------------------------------------------------------

BoundPorts(o) == {e.port : e \in params[o].PortBindings.entries}

C40_ExposedPortsAreBoundPorts ==
    \A o \in Updaters :
        ~created[o].nil =>
            /\ ~created[o].config.ExposedPorts.nil
            /\ created[o].config.ExposedPorts.keys = BoundPorts(o)
            /\ \A port \in Original(o).Config.ExposedPorts.keys :
                  port \notin {e.port : e \in Original(o).HostConfig.PortBindings.entries}
                      => port \notin created[o].config.ExposedPorts.keys
            /\ (upc[o] \in {"start", "done"} /\ newContainerID[o] \in DOMAIN runtime)
                  => runtime[newContainerID[o]].Config.ExposedPorts.keys = BoundPorts(o)

\* the original exposed 80/tcp and 443/tcp and bound 80/tcp only; its
\* replacement exposes 80/tcp
C40_Witness ==
    \E o \in Updaters :
        /\ upc[o] = "done"
        /\ Original(o).Config.ExposedPorts.keys = {"80/tcp", "443/tcp"}
        /\ BoundPorts(o) = {"80/tcp"}
        /\ runtime[newContainerID[o]].Config.ExposedPorts = KeySet({"80/tcp"})

====
